---- MODULE Spec2Model ----
(***************************************************************************)
(* brainfile: the immutable board mutation layer (operations.py,           *)
(* contract_ops.py), the lookup layer (query.py) and task id generation    *)
(* (id_gen.py), as a state machine of one caller that holds a board        *)
(* snapshot and applies mutation operations to it.                         *)
(*                                                                         *)
(* Python objects are references: a board lives in a heap (a sequence of   *)
(* board values, a reference is an index).  Every operation takes the heap *)
(* and the reference of its input board and returns the heap after the     *)
(* call together with its result, so that "the input is not altered" is a  *)
(* fact about the code's copies and not about the notation.                *)
(*                                                                         *)
(* Encodings.  An Optional value is None (the empty tuple) or Some(v) (a   *)
(* one-element tuple).  A str that the code trims is a sequence of         *)
(* one-character strings; other strs are TLA+ strings.  A task id          *)
(* "<prefix>-<digits>" is the record [prefix, num].                        *)
(***************************************************************************)
EXTENDS Integers, Sequences, FiniteSets, TLC

VARIABLES board, last, nops, mem, threads

vars == <<board, last, nops, mem, threads>>

\* ---------------------------------------------------------------- bounds

\* Longest run of calls one behaviour of Spec makes.
MaxOps == 1

\* add_task is called on boards of fewer tasks (active and archived) than this.
MaxTasks == 4

\* Longest id list handed to a bulk operation.
MaxBulk == 2

\* A session adds a task only to a board of fewer tasks (active and archived)
\* than this.
MaxSeqTasks == 3

\* A session adds a task only while the highest task number is below this.
MaxSeqId == 3

\* The callers that call an operation on one shared input board.
NumCallers == 2

\* A session on subtasks goes on from a board whose tasks have at most this
\* many subtasks each,
MaxSubtasks == 2

\* and no subtask numbered above this.
MaxSubId == 3

\* ------------------------------------------------------------- encodings

None == <<>>

Some(v) == <<v>>

IsNone(o) == o = <<>>

Get(o) == o[1]

\* Python truthiness of an Optional list or trimmed str (both sequences here):
\* None and the empty value are falsy.
TruthySeq(o) == o # None /\ Get(o) # <<>>

\* Python truthiness of an Optional plain str.
TruthyStr(o) == o # None /\ Get(o) # ""

\* The least element of a set of positions, 0 for the empty set.
First(hits) == IF hits = {} THEN 0 ELSE CHOOSE i \in hits : \A j \in hits : i <= j

\* Position of the first element of s with that id, 0 when there is none
\* (the loops "for x in s: if x.id == id: ...; break" of the code).
IndexOfId(s, id) == First({i \in 1..Len(s) : s[i].id = id})

\* [x for x in s if x.id != id]
WithoutId(s, id) == SelectSeq(s, LAMBDA x : x.id # id)

\* str.strip() on a sequence of characters: leading and trailing blanks go.
RECURSIVE lstrip(_)
lstrip(s) ==
    IF s # <<>> /\ Head(s) = " " THEN lstrip(Tail(s)) ELSE s

RECURSIVE rstrip(_)
rstrip(s) ==
    IF s # <<>> /\ s[Len(s)] = " " THEN rstrip(SubSeq(s, 1, Len(s) - 1)) ELSE s

strip(s) == rstrip(lstrip(s))

\* [... for i in range(len(s))], list(...): the list a comprehension builds,
\* held as a tuple from the moment it is built.
List(f) == f \o <<>>

\* list.pop(i), i a 0-based index in range: the list without that element.
ListPop(s, i) == SubSeq(s, 1, i) \o SubSeq(s, i + 2, Len(s))

\* list.append(x) where list.insert(i, x) was meant.
ListInsert_append(s, i, x) == Append(s, x)

\* list.insert(i, x), i 0-based: a negative index counts from the end, and an
\* index outside the list is clamped to its ends.
ListInsert(s, i, x) ==
    LET j == IF i < 0 THEN (IF i + Len(s) < 0 THEN 0 ELSE i + Len(s))
             ELSE IF i > Len(s) THEN Len(s) ELSE i
    IN  SubSeq(s, 1, j) \o <<x>> \o SubSeq(s, j + 1, Len(s))

\* --------------------------------------------------------------- models.py

PriorityValues == {"low", "medium", "high", "critical"}

TemplateTypeValues == {"bug", "feature", "refactor"}

\* Priority(value): the member with that value, ValueError (here None) otherwise.
Priority(s) == IF s \in PriorityValues THEN Some(s) ELSE None

TemplateType(s) == IF s \in TemplateTypeValues THEN Some(s) ELSE None

Subtask(id, title, completed) == [id |-> id, title |-> title, completed |-> completed]

\* Task(id=..., title=...): every other field at its default, None.
Task(id, title) ==
    [id |-> id, title |-> title, description |-> None, related_files |-> None,
     assignee |-> None, tags |-> None, priority |-> None, due_date |-> None,
     subtasks |-> None, template |-> None, contract |-> None]

Contract(status) == [status |-> status]

Column(id, title, tasks) == [id |-> id, title |-> title, order |-> None, tasks |-> tasks]

Board(title, columns, archive) ==
    [title |-> title, columns |-> columns, archive |-> archive, stats_config |-> None]

\* ---------------------------------------------------------------- query.py

\* 1-based position of the column with that id, 0 for None.
find_column_by_id(b, column_id) ==
    IndexOfId(b.columns, column_id)

\* TaskInfo as [column, index] (1-based positions), [column |-> 0] for None:
\* the first column, in board order, that holds the id, and the first such task.
find_task_by_id(b, task_id) ==
    LET ci == First({c \in 1..Len(b.columns) : IndexOfId(b.columns[c].tasks, task_id) # 0})
    IN  IF ci = 0 THEN [column |-> 0, index |-> 0]
        ELSE [column |-> ci, index |-> IndexOfId(b.columns[ci].tasks, task_id)]

\* --------------------------------------------------------------- id_gen.py

DEFAULT_PREFIX == "task"

TaskId(prefix, num) == [prefix |-> prefix, num |-> num]

\* The number of the id, whatever its prefix.
extract_task_id_number_any_prefix(task_id) == task_id.num

\* re.search(rf"{prefix}-(\d+)", task_id): the number after the prefix, 0 when
\* the id does not carry the prefix.
extract_task_id_number(task_id) ==
    IF task_id.prefix = DEFAULT_PREFIX THEN task_id.num ELSE 0

\* [extract_task_id_number(task.id) for col in board.columns for task in col.tasks]
RECURSIVE AllTaskIdNumbers(_)
AllTaskIdNumbers(columns) ==
    IF columns = <<>> THEN <<>>
    ELSE List([i \in 1..Len(Head(columns).tasks) |->
              extract_task_id_number(Head(columns).tasks[i].id)])
         \o AllTaskIdNumbers(Tail(columns))

SeqMax(s) == CHOOSE m \in {s[i] : i \in 1..Len(s)} : \A i \in 1..Len(s) : s[i] <= m

\* The number of active tasks taken for the highest number in use.
get_max_task_id_number_count(b) == Len(AllTaskIdNumbers(b.columns))

get_max_task_id_number(b) ==
    LET all_task_ids == AllTaskIdNumbers(b.columns)
    IN  IF all_task_ids # <<>> THEN SeqMax(all_task_ids) ELSE 0

generate_next_task_id(b) == TaskId("task", get_max_task_id_number(b) + 1)

\* ------------------------------------------------------------ operations.py

NoBoard == 0

BoardOperationResult(success, b, error) ==
    [success |-> success, board |-> b, error |-> error]

\* What a call leaves behind: the heap after it and the value it returns.
Ret(heap, result) == [heap |-> heap, result |-> result]

\* A failure that hands the input board back with the error.
Fail_with_board(heap, error) == Ret(heap, BoardOperationResult(FALSE, 1, Some(error)))

Fail(heap, error) == Ret(heap, BoardOperationResult(FALSE, NoBoard, Some(error)))

Ok(heap, b) == Ret(heap, BoardOperationResult(TRUE, b, None))

\* No copy at all: the "new" board is the input object itself.
_deep_copy_board_alias(heap, b) == [heap |-> heap, ref |-> b]

\* board.model_copy(deep=True): a new object, equal to the source and sharing
\* nothing with it.
_deep_copy_board(heap, b) ==
    [heap |-> Append(heap, heap[b]), ref |-> Len(heap) + 1]

\* The tasks of the first column with that id.
TasksOf(b, column_id) == b.columns[find_column_by_id(b, column_id)].tasks

\* for col in new_board.columns: if col.id == column_id: col.tasks = tasks; break
SetTasks(heap, b, column_id, tasks) ==
    LET ci == find_column_by_id(heap[b], column_id)
    IN  IF ci = 0 THEN heap ELSE [heap EXCEPT ![b].columns[ci].tasks = tasks]

\* The task taken out of the column and the new one appended to the column.
SetTask_moves_to_end(heap, b, column_id, task_id, new_task) ==
    IF find_column_by_id(heap[b], column_id) = 0 THEN heap
    ELSE LET tasks == TasksOf(heap[b], column_id)
             ti == IndexOfId(tasks, task_id)
         IN  IF ti = 0 THEN heap
             ELSE SetTasks(heap, b, column_id, Append(ListPop(tasks, ti - 1), new_task))

\* for col ...: if col.id == column_id: for task in col.tasks:
\*     if task.id == task_id: <task becomes new_task>; break
SetTask(heap, b, column_id, task_id, new_task) ==
    IF find_column_by_id(heap[b], column_id) = 0 THEN heap
    ELSE LET tasks == TasksOf(heap[b], column_id)
             ti == IndexOfId(tasks, task_id)
         IN  IF ti = 0 THEN heap
             ELSE SetTasks(heap, b, column_id, [tasks EXCEPT ![ti] = new_task])

\* move_task without the check of the target column: the task leaves its
\* source column and lands nowhere.
move_task_no_target_check(heap, b, task_id, from_column_id, to_column_id, to_index) ==
    LET brd == heap[b]
        from_column == find_column_by_id(brd, from_column_id)
        task_index ==
            IF from_column = 0 THEN 0
            ELSE IndexOfId(brd.columns[from_column].tasks, task_id)
    IN  IF from_column = 0 THEN Fail(heap, "Source column not found")
        ELSE IF task_index = 0 THEN Fail(heap, "Task not found in column")
        ELSE
            LET task == brd.columns[from_column].tasks[task_index]
                cp == _deep_copy_board(heap, b)
                Moved(col) ==
                    IF col.id = from_column_id /\ col.id = to_column_id
                    THEN ListInsert(ListPop(col.tasks, task_index - 1), to_index,
                                    col.tasks[task_index])
                    ELSE IF col.id = from_column_id
                    THEN WithoutId(col.tasks, task_id)
                    ELSE IF col.id = to_column_id
                    THEN ListInsert(col.tasks, to_index, task)
                    ELSE col.tasks
                cols == cp.heap[cp.ref].columns
            IN  Ok([cp.heap EXCEPT ![cp.ref].columns =
                       List([i \in 1..Len(cols) |-> [cols[i] EXCEPT !.tasks = Moved(cols[i])]])],
                   cp.ref)

move_task(heap, b, task_id, from_column_id, to_column_id, to_index) ==
    LET brd == heap[b]
        from_column == find_column_by_id(brd, from_column_id)
        to_column == find_column_by_id(brd, to_column_id)
        task_index ==
            IF from_column = 0 THEN 0
            ELSE IndexOfId(brd.columns[from_column].tasks, task_id)
    IN  IF from_column = 0 THEN Fail(heap, "Source column not found")
        ELSE IF to_column = 0 THEN Fail(heap, "Target column not found")
        ELSE IF task_index = 0 THEN Fail(heap, "Task not found in column")
        ELSE
            LET task == brd.columns[from_column].tasks[task_index]
                cp == _deep_copy_board(heap, b)
                Moved(col) ==
                    IF col.id = from_column_id /\ col.id = to_column_id
                    THEN ListInsert(ListPop(col.tasks, task_index - 1), to_index,
                                    col.tasks[task_index])
                    ELSE IF col.id = from_column_id
                    THEN WithoutId(col.tasks, task_id)
                    ELSE IF col.id = to_column_id
                    THEN ListInsert(col.tasks, to_index, task)
                    ELSE col.tasks
                cols == cp.heap[cp.ref].columns
            IN  Ok([cp.heap EXCEPT ![cp.ref].columns =
                       List([i \in 1..Len(cols) |-> [cols[i] EXCEPT !.tasks = Moved(cols[i])]])],
                   cp.ref)

\* f"{new_task_id}-{index + 1}", f"{task_id}-{index}".  A subtask id is the
\* task id it starts with, the number after the dash, and the text after the
\* number: none in an id that was generated, some in an id written by hand.
SubtaskId(task_id, index) == [task |-> task_id, idx |-> index, tail |-> ""]

add_task(heap, b, column_id, input_data) ==
    LET brd == heap[b]
        column == find_column_by_id(brd, column_id)
    IN  IF column = 0 THEN Fail(heap, "Column not found")
        ELSE IF input_data.title = <<>> \/ strip(input_data.title) = <<>>
        THEN Fail(heap, "Task title is required")
        ELSE
            LET new_task_id == generate_next_task_id(brd)
                subtasks ==
                    IF TruthySeq(input_data.subtasks)
                    THEN Some(List([i \in 1..Len(Get(input_data.subtasks)) |->
                                  Subtask(SubtaskId(new_task_id, i),
                                          strip(Get(input_data.subtasks)[i]), FALSE)]))
                    ELSE None
                priority ==
                    IF TruthyStr(input_data.priority)
                    THEN Priority(Get(input_data.priority)) ELSE None
                template ==
                    IF TruthyStr(input_data.template)
                    THEN TemplateType(Get(input_data.template)) ELSE None
                new_task ==
                    [id |-> new_task_id,
                     title |-> strip(input_data.title),
                     description |->
                         IF TruthySeq(input_data.description)
                         THEN Some(strip(Get(input_data.description))) ELSE None,
                     priority |-> priority,
                     tags |-> IF TruthySeq(input_data.tags) THEN input_data.tags ELSE None,
                     assignee |-> input_data.assignee,
                     due_date |-> input_data.due_date,
                     related_files |->
                         IF TruthySeq(input_data.related_files)
                         THEN input_data.related_files ELSE None,
                     template |-> template,
                     subtasks |-> IF TruthySeq(subtasks) THEN subtasks ELSE None,
                     contract |-> None]
                cp == _deep_copy_board(heap, b)
            IN  Ok(SetTasks(cp.heap, cp.ref, column_id,
                       Append(TasksOf(cp.heap[cp.ref], column_id), new_task)), cp.ref)

update_task(heap, b, column_id, task_id, new_title, new_description) ==
    LET brd == heap[b]
        column == find_column_by_id(brd, column_id)
    IN  IF column = 0 THEN Fail(heap, "Column not found")
        ELSE IF IndexOfId(brd.columns[column].tasks, task_id) = 0
        THEN Fail(heap, "Task not found in column")
        ELSE
            LET cp == _deep_copy_board(heap, b)
                tasks == TasksOf(cp.heap[cp.ref], column_id)
                task == tasks[IndexOfId(tasks, task_id)]
            IN  Ok(SetTask(cp.heap, cp.ref, column_id, task_id,
                       [task EXCEPT !.title = new_title,
                                    !.description = Some(new_description)]),
                   cp.ref)

\* delete_task removing the task by moving the last task of the column into
\* its place.
delete_task_swap_remove(heap, b, column_id, task_id) ==
    LET brd == heap[b]
        column == find_column_by_id(brd, column_id)
    IN  IF column = 0 THEN Fail(heap, "Column not found")
        ELSE IF IndexOfId(brd.columns[column].tasks, task_id) = 0
        THEN Fail(heap, "Task not found in column")
        ELSE
            LET cp == _deep_copy_board(heap, b)
                tasks == TasksOf(cp.heap[cp.ref], column_id)
                ti == IndexOfId(tasks, task_id)
            IN  Ok(SetTasks(cp.heap, cp.ref, column_id,
                       SubSeq([tasks EXCEPT ![ti] = tasks[Len(tasks)]], 1, Len(tasks) - 1)),
                   cp.ref)

delete_task(heap, b, column_id, task_id) ==
    LET brd == heap[b]
        column == find_column_by_id(brd, column_id)
    IN  IF column = 0 THEN Fail(heap, "Column not found")
        ELSE IF IndexOfId(brd.columns[column].tasks, task_id) = 0
        THEN Fail(heap, "Task not found in column")
        ELSE
            LET cp == _deep_copy_board(heap, b)
            IN  Ok(SetTasks(cp.heap, cp.ref, column_id,
                       WithoutId(TasksOf(cp.heap[cp.ref], column_id), task_id)), cp.ref)

update_board_title(heap, b, new_title) ==
    LET cp == _deep_copy_board(heap, b)
    IN  Ok([cp.heap EXCEPT ![cp.ref].title = new_title], cp.ref)

update_stats_config(heap, b, columns) ==
    LET cp == _deep_copy_board(heap, b)
    IN  Ok([cp.heap EXCEPT ![cp.ref].stats_config = Some(columns)], cp.ref)

archive_task(heap, b, column_id, task_id) ==
    LET brd == heap[b]
        column == find_column_by_id(brd, column_id)
        ti == IF column = 0 THEN 0
              ELSE IndexOfId(brd.columns[column].tasks, task_id)
    IN  IF column = 0 THEN Fail(heap, "Column not found")
        ELSE IF ti = 0 THEN Fail(heap, "Task not found in column")
        ELSE
            LET task == brd.columns[column].tasks[ti]
                cp == _deep_copy_board(heap, b)
                removed == SetTasks(cp.heap, cp.ref, column_id,
                               WithoutId(TasksOf(cp.heap[cp.ref], column_id), task_id))
                archive == IF removed[cp.ref].archive = None THEN <<>>
                           ELSE Get(removed[cp.ref].archive)
            IN  Ok([removed EXCEPT ![cp.ref].archive = Some(Append(archive, task))], cp.ref)

\* restore_task leaving the archive as it is.
restore_task_keeps_archive(heap, b, task_id, to_column_id) ==
    LET brd == heap[b]
        ai == IF TruthySeq(brd.archive)
              THEN IndexOfId(Get(brd.archive), task_id) ELSE 0
    IN  IF ~TruthySeq(brd.archive) THEN Fail(heap, "Archive is empty")
        ELSE IF ai = 0 THEN Fail(heap, "Task not found in archive")
        ELSE IF find_column_by_id(brd, to_column_id) = 0
        THEN Fail(heap, "Target column not found")
        ELSE
            LET task == Get(brd.archive)[ai]
                cp == _deep_copy_board(heap, b)
                added == SetTasks(cp.heap, cp.ref, to_column_id,
                             Append(TasksOf(cp.heap[cp.ref], to_column_id), task))
                archive == IF TruthySeq(added[cp.ref].archive)
                           THEN Get(added[cp.ref].archive)
                           ELSE <<>>
            IN  Ok([added EXCEPT ![cp.ref].archive = Some(archive)], cp.ref)

\* restore_task putting the restored task first in the target column.
restore_task_front(heap, b, task_id, to_column_id) ==
    LET brd == heap[b]
        ai == IF TruthySeq(brd.archive)
              THEN IndexOfId(Get(brd.archive), task_id) ELSE 0
    IN  IF ~TruthySeq(brd.archive) THEN Fail(heap, "Archive is empty")
        ELSE IF ai = 0 THEN Fail(heap, "Task not found in archive")
        ELSE IF find_column_by_id(brd, to_column_id) = 0
        THEN Fail(heap, "Target column not found")
        ELSE
            LET task == Get(brd.archive)[ai]
                cp == _deep_copy_board(heap, b)
                added == SetTasks(cp.heap, cp.ref, to_column_id,
                             <<task>> \o TasksOf(cp.heap[cp.ref], to_column_id))
                archive == IF TruthySeq(added[cp.ref].archive)
                           THEN WithoutId(Get(added[cp.ref].archive), task_id)
                           ELSE <<>>
            IN  Ok([added EXCEPT ![cp.ref].archive = Some(archive)], cp.ref)

restore_task(heap, b, task_id, to_column_id) ==
    LET brd == heap[b]
        ai == IF TruthySeq(brd.archive)
              THEN IndexOfId(Get(brd.archive), task_id) ELSE 0
    IN  IF ~TruthySeq(brd.archive) THEN Fail(heap, "Archive is empty")
        ELSE IF ai = 0 THEN Fail(heap, "Task not found in archive")
        ELSE IF find_column_by_id(brd, to_column_id) = 0
        THEN Fail(heap, "Target column not found")
        ELSE
            LET task == Get(brd.archive)[ai]
                cp == _deep_copy_board(heap, b)
                added == SetTasks(cp.heap, cp.ref, to_column_id,
                             Append(TasksOf(cp.heap[cp.ref], to_column_id), task))
                archive == IF TruthySeq(added[cp.ref].archive)
                           THEN WithoutId(Get(added[cp.ref].archive), task_id)
                           ELSE <<>>
            IN  Ok([added EXCEPT ![cp.ref].archive = Some(archive)], cp.ref)

\* A TaskPatch field: the _UNSET sentinel (leave the task's field alone) or a
\* value, which may be None (remove the field).
_UNSET == [unset |-> TRUE, value |-> None]

Set(v) == [unset |-> FALSE, value |-> v]

\* TaskPatch(...): title defaults to None, every other field to _UNSET.
TaskPatch(title, description, priority, tags, assignee, due_date, related_files, template) ==
    [title |-> title, description |-> description, priority |-> priority,
     tags |-> tags, assignee |-> assignee, due_date |-> due_date,
     related_files |-> related_files, template |-> template]

\* A patch that tells None from a value only: a field set to None is left alone.
ApplyPatch_none_keeps(task, patch) ==
    [task EXCEPT
        !.title = IF patch.title # None THEN strip(Get(patch.title)) ELSE @,
        !.description =
            IF patch.description.value = None THEN @
            ELSE Some(strip(Get(patch.description.value))),
        !.priority =
            IF patch.priority.value = None THEN @ ELSE Priority(Get(patch.priority.value)),
        !.tags =
            IF patch.tags.value = None THEN @
            ELSE IF Get(patch.tags.value) = <<>> THEN None ELSE patch.tags.value,
        !.assignee = IF patch.assignee.value = None THEN @ ELSE patch.assignee.value,
        !.due_date = IF patch.due_date.value = None THEN @ ELSE patch.due_date.value,
        !.related_files =
            IF patch.related_files.value = None THEN @
            ELSE IF Get(patch.related_files.value) = <<>> THEN None
            ELSE patch.related_files.value,
        !.template =
            IF patch.template.value = None THEN @
            ELSE TemplateType(Get(patch.template.value))]

\* The body of patch_task's loop: the task after the patch is applied to it.
ApplyPatch(task, patch) ==
    [task EXCEPT
        !.title = IF patch.title # None THEN strip(Get(patch.title)) ELSE @,
        !.description =
            IF patch.description.unset THEN @
            ELSE IF patch.description.value = None THEN None
            ELSE Some(strip(Get(patch.description.value))),
        !.priority =
            IF patch.priority.unset THEN @
            ELSE IF patch.priority.value = None THEN None
            ELSE Priority(Get(patch.priority.value)),
        !.tags =
            IF patch.tags.unset THEN @
            ELSE IF patch.tags.value = None \/ Get(patch.tags.value) = <<>> THEN None
            ELSE patch.tags.value,
        !.assignee = IF patch.assignee.unset THEN @ ELSE patch.assignee.value,
        !.due_date = IF patch.due_date.unset THEN @ ELSE patch.due_date.value,
        !.related_files =
            IF patch.related_files.unset THEN @
            ELSE IF patch.related_files.value = None
                    \/ Get(patch.related_files.value) = <<>> THEN None
            ELSE patch.related_files.value,
        !.template =
            IF patch.template.unset THEN @
            ELSE IF patch.template.value = None THEN None
            ELSE TemplateType(Get(patch.template.value))]

patch_task(heap, b, task_id, patch) ==
    LET brd == heap[b]
        task_info == find_task_by_id(brd, task_id)
    IN  IF task_info.column = 0 THEN Fail(heap, "Task not found")
        ELSE
            LET column == brd.columns[task_info.column]
                cp == _deep_copy_board(heap, b)
                tasks == TasksOf(cp.heap[cp.ref], column.id)
                task == tasks[IndexOfId(tasks, task_id)]
            IN  Ok(SetTask(cp.heap, cp.ref, column.id, task_id, ApplyPatch(task, patch)),
                   cp.ref)

\* The checks with only the first requested subtask id looked up.
SubtaskPrecondition_first_only(brd, task_id, subtask_ids) ==
    LET task_info == find_task_by_id(brd, task_id)
        task == brd.columns[task_info.column].tasks[task_info.index]
    IN  IF task_info.column = 0 THEN "Task not found"
        ELSE IF ~TruthySeq(task.subtasks) THEN "Task has no subtasks"
        ELSE IF /\ subtask_ids # <<>>
                /\ \A j \in 1..Len(Get(task.subtasks)) :
                       Get(task.subtasks)[j].id # subtask_ids[1]
        THEN "Subtask not found"
        ELSE ""

\* The checks every subtask-scoped operation starts with: "" when they pass.
SubtaskPrecondition(brd, task_id, subtask_ids) ==
    LET task_info == find_task_by_id(brd, task_id)
        task == brd.columns[task_info.column].tasks[task_info.index]
    IN  IF task_info.column = 0 THEN "Task not found"
        ELSE IF ~TruthySeq(task.subtasks) THEN "Task has no subtasks"
        ELSE IF \E i \in 1..Len(subtask_ids) :
                    \A j \in 1..Len(Get(task.subtasks)) :
                        Get(task.subtasks)[j].id # subtask_ids[i]
        THEN "Subtask not found"
        ELSE ""

\* The task find_task_by_id finds.
TaskById(brd, task_id) ==
    LET task_info == find_task_by_id(brd, task_id)
    IN  brd.columns[task_info.column].tasks[task_info.index]

\* for col ...: if col.id == column.id: for t in col.tasks:
\*     if t.id == task_id and t.subtasks: <t.subtasks becomes subtasks>; break
SetSubtasks(heap, b, task_id, subtasks) ==
    LET task_info == find_task_by_id(heap[b], task_id)
        column == heap[b].columns[task_info.column]
        t == column.tasks[task_info.index]
    IN  IF TruthySeq(t.subtasks)
        THEN SetTask(heap, b, column.id, task_id, [t EXCEPT !.subtasks = subtasks])
        ELSE heap

\* for st in t.subtasks: if st.id == subtask_id: <st becomes new_subtask>; break
SetSubtask(subtasks, subtask_id, new_subtask) ==
    LET si == IndexOfId(subtasks, subtask_id)
    IN  IF si = 0 THEN subtasks ELSE [subtasks EXCEPT ![si] = new_subtask]

toggle_subtask(heap, b, task_id, subtask_id) ==
    LET error == SubtaskPrecondition(heap[b], task_id, <<subtask_id>>)
    IN  IF error # "" THEN Fail(heap, error)
        ELSE
            LET cp == _deep_copy_board(heap, b)
                sts == Get(TaskById(cp.heap[cp.ref], task_id).subtasks)
                st == sts[IndexOfId(sts, subtask_id)]
            IN  Ok(SetSubtasks(cp.heap, cp.ref, task_id,
                       Some(SetSubtask(sts, subtask_id,
                                       [st EXCEPT !.completed = ~st.completed]))),
                   cp.ref)

\* generate_next_subtask_id numbering by the count of the ids.
generate_next_subtask_id_count(task_id, existing_subtask_ids) ==
    SubtaskId(task_id, Len(existing_subtask_ids) + 1)

\* re.match(rf"{task_id}-(\d+)", subtask_id), kept when the number is positive:
\* the match is of the start of the id, whatever follows the number.
generate_next_subtask_id(task_id, existing_subtask_ids) ==
    LET indices == {existing_subtask_ids[i].idx : i \in
                       {j \in 1..Len(existing_subtask_ids) :
                            /\ existing_subtask_ids[j].task = task_id
                            /\ existing_subtask_ids[j].idx > 0}}
        max_index == IF indices # {} THEN CHOOSE m \in indices : \A n \in indices : n <= m
                     ELSE 0
    IN  SubtaskId(task_id, max_index + 1)

add_subtask(heap, b, task_id, title) ==
    LET brd == heap[b]
        task_info == find_task_by_id(brd, task_id)
    IN  IF task_info.column = 0 THEN Fail(heap, "Task not found")
        ELSE IF title = <<>> \/ strip(title) = <<>> THEN Fail(heap, "Subtask title is required")
        ELSE
            LET column == brd.columns[task_info.column]
                task == column.tasks[task_info.index]
                existing_ids ==
                    IF TruthySeq(task.subtasks)
                    THEN List([i \in 1..Len(Get(task.subtasks)) |-> Get(task.subtasks)[i].id])
                    ELSE <<>>
                new_subtask ==
                    Subtask(generate_next_subtask_id(task_id, existing_ids), strip(title), FALSE)
                cp == _deep_copy_board(heap, b)
            IN  Ok(SetTask(cp.heap, cp.ref, column.id, task_id,
                       [task EXCEPT !.subtasks =
                           Some(Append(IF @ = None THEN <<>> ELSE Get(@), new_subtask))]),
                   cp.ref)

\* delete_subtask leaving an empty list behind when the last subtask goes.
delete_subtask_leaves_empty_list(heap, b, task_id, subtask_id) ==
    LET error == SubtaskPrecondition(heap[b], task_id, <<subtask_id>>)
    IN  IF error # "" THEN Fail(heap, error)
        ELSE
            LET cp == _deep_copy_board(heap, b)
                sts == Get(TaskById(cp.heap[cp.ref], task_id).subtasks)
            IN  Ok(SetSubtasks(cp.heap, cp.ref, task_id, Some(WithoutId(sts, subtask_id))),
                   cp.ref)

delete_subtask(heap, b, task_id, subtask_id) ==
    LET error == SubtaskPrecondition(heap[b], task_id, <<subtask_id>>)
    IN  IF error # "" THEN Fail(heap, error)
        ELSE
            LET cp == _deep_copy_board(heap, b)
                sts == Get(TaskById(cp.heap[cp.ref], task_id).subtasks)
                remaining == WithoutId(sts, subtask_id)
            IN  Ok(SetSubtasks(cp.heap, cp.ref, task_id,
                       IF remaining # <<>> THEN Some(remaining) ELSE None),
                   cp.ref)

update_subtask(heap, b, task_id, subtask_id, title) ==
    LET brd == heap[b]
        error == SubtaskPrecondition(brd, task_id, <<subtask_id>>)
    IN  IF find_task_by_id(brd, task_id).column = 0 THEN Fail(heap, "Task not found")
        ELSE IF title = <<>> \/ strip(title) = <<>> THEN Fail(heap, "Subtask title is required")
        ELSE IF error # "" THEN Fail(heap, error)
        ELSE
            LET cp == _deep_copy_board(heap, b)
                sts == Get(TaskById(cp.heap[cp.ref], task_id).subtasks)
                st == sts[IndexOfId(sts, subtask_id)]
            IN  Ok(SetSubtasks(cp.heap, cp.ref, task_id,
                       Some(SetSubtask(sts, subtask_id, [st EXCEPT !.title = strip(title)]))),
                   cp.ref)

set_subtasks_completed(heap, b, task_id, subtask_ids, completed) ==
    LET error == SubtaskPrecondition(heap[b], task_id, subtask_ids)
    IN  IF error # "" THEN Fail(heap, error)
        ELSE
            LET subtask_id_set == {subtask_ids[i] : i \in 1..Len(subtask_ids)}
                cp == _deep_copy_board(heap, b)
                sts == Get(TaskById(cp.heap[cp.ref], task_id).subtasks)
            IN  Ok(SetSubtasks(cp.heap, cp.ref, task_id,
                       Some(List([i \in 1..Len(sts) |->
                           IF sts[i].id \in subtask_id_set
                           THEN [sts[i] EXCEPT !.completed = completed] ELSE sts[i]]))),
                   cp.ref)

set_all_subtasks_completed(heap, b, task_id, completed) ==
    LET error == SubtaskPrecondition(heap[b], task_id, <<>>)
    IN  IF error # "" THEN Fail(heap, error)
        ELSE
            LET cp == _deep_copy_board(heap, b)
                sts == Get(TaskById(cp.heap[cp.ref], task_id).subtasks)
            IN  Ok(SetSubtasks(cp.heap, cp.ref, task_id,
                       Some(List([i \in 1..Len(sts) |-> [sts[i] EXCEPT !.completed = completed]]))),
                   cp.ref)

\* ---------------------------------------------------------- bulk operations

BulkItemResult(id, success, error) == [id |-> id, success |-> success, error |-> error]

BulkOperationResult(success, b, results, success_count, failure_count) ==
    [success |-> success, board |-> b, results |-> results,
     success_count |-> success_count, failure_count |-> failure_count]

\* A tail that reports success as soon as one item succeeded.
BulkReturn_any_success(heap, current_board, results) ==
    LET success_count == Cardinality({i \in 1..Len(results) : results[i].success})
        failure_count == Cardinality({i \in 1..Len(results) : ~results[i].success})
    IN  Ret(heap, BulkOperationResult(success_count > 0, current_board, results,
                                      success_count, failure_count))

\* The tail every bulk operation ends with: count the outcomes, return current_board.
BulkReturn(heap, current_board, results) ==
    LET success_count == Cardinality({i \in 1..Len(results) : results[i].success})
        failure_count == Cardinality({i \in 1..Len(results) : ~results[i].success})
    IN  Ret(heap, BulkOperationResult(failure_count = 0, current_board, results,
                                      success_count, failure_count))

\* A pass that falls back to the board the bulk call was given when an item fails.
BulkStep_rollback(st, task_id, r) ==
    IF r.result.success /\ r.result.board # NoBoard
    THEN [heap |-> r.heap, current_board |-> r.result.board,
          results |-> Append(st.results, BulkItemResult(task_id, TRUE, None))]
    ELSE [heap |-> r.heap, current_board |-> 1,
          results |-> Append(st.results, BulkItemResult(task_id, FALSE, r.result.error))]

\* One pass of a bulk loop: the single-item call's outcome recorded, its board
\* taken as current_board when it succeeded.
BulkStep(st, task_id, r) ==
    IF r.result.success /\ r.result.board # NoBoard
    THEN [heap |-> r.heap, current_board |-> r.result.board,
          results |-> Append(st.results, BulkItemResult(task_id, TRUE, None))]
    ELSE [heap |-> r.heap, current_board |-> st.current_board,
          results |-> Append(st.results, BulkItemResult(task_id, FALSE, r.result.error))]

BulkNotFound(st, task_id) ==
    [st EXCEPT !.results = Append(@, BulkItemResult(task_id, FALSE, Some("Task not found")))]

RECURSIVE MoveTasksLoop(_, _, _)
MoveTasksLoop(st, task_ids, to_column_id) ==
    IF task_ids = <<>> THEN st
    ELSE
        LET task_id == Head(task_ids)
            cur == st.heap[st.current_board]
            task_info == find_task_by_id(cur, task_id)
            target_column == find_column_by_id(cur, to_column_id)
            to_index == IF target_column # 0 THEN Len(cur.columns[target_column].tasks)
                        ELSE 0
            next ==
                IF task_info.column = 0 THEN BulkNotFound(st, task_id)
                ELSE IF cur.columns[task_info.column].id = to_column_id
                THEN [st EXCEPT !.results = Append(@, BulkItemResult(task_id, TRUE, None))]
                ELSE BulkStep(st, task_id,
                         move_task(st.heap, st.current_board, task_id,
                                   cur.columns[task_info.column].id, to_column_id, to_index))
        IN  MoveTasksLoop(next, Tail(task_ids), to_column_id)

\* move_tasks handing back the input board when the target column is missing.
move_tasks_returns_input(heap, b, task_ids, to_column_id) ==
    IF find_column_by_id(heap[b], to_column_id) = 0
    THEN Ret(heap, BulkOperationResult(FALSE, b,
                 List([i \in 1..Len(task_ids) |->
                     BulkItemResult(task_ids[i], FALSE, Some("Target column not found"))]),
                 0, Len(task_ids)))
    ELSE
        LET st == MoveTasksLoop([heap |-> heap, current_board |-> b, results |-> <<>>],
                                task_ids, to_column_id)
        IN  BulkReturn(st.heap, st.current_board, st.results)

move_tasks(heap, b, task_ids, to_column_id) ==
    IF find_column_by_id(heap[b], to_column_id) = 0
    THEN Ret(heap, BulkOperationResult(FALSE, NoBoard,
                 List([i \in 1..Len(task_ids) |->
                     BulkItemResult(task_ids[i], FALSE, Some("Target column not found"))]),
                 0, Len(task_ids)))
    ELSE
        LET st == MoveTasksLoop([heap |-> heap, current_board |-> b, results |-> <<>>],
                                task_ids, to_column_id)
        IN  BulkReturn(st.heap, st.current_board, st.results)

RECURSIVE PatchTasksLoop(_, _, _)
PatchTasksLoop(st, task_ids, patch) ==
    IF task_ids = <<>> THEN st
    ELSE PatchTasksLoop(
             BulkStep(st, Head(task_ids),
                 patch_task(st.heap, st.current_board, Head(task_ids), patch)),
             Tail(task_ids), patch)

patch_tasks(heap, b, task_ids, patch) ==
    LET st == PatchTasksLoop([heap |-> heap, current_board |-> b, results |-> <<>>],
                             task_ids, patch)
    IN  BulkReturn(st.heap, st.current_board, st.results)

RECURSIVE DeleteTasksLoop(_, _)
DeleteTasksLoop(st, task_ids) ==
    IF task_ids = <<>> THEN st
    ELSE
        LET task_id == Head(task_ids)
            cur == st.heap[st.current_board]
            task_info == find_task_by_id(cur, task_id)
            next ==
                IF task_info.column = 0 THEN BulkNotFound(st, task_id)
                ELSE BulkStep(st, task_id,
                         delete_task(st.heap, st.current_board,
                                     cur.columns[task_info.column].id, task_id))
        IN  DeleteTasksLoop(next, Tail(task_ids))

delete_tasks(heap, b, task_ids) ==
    LET st == DeleteTasksLoop([heap |-> heap, current_board |-> b, results |-> <<>>],
                              task_ids)
    IN  BulkReturn(st.heap, st.current_board, st.results)

RECURSIVE ArchiveTasksLoop(_, _)
ArchiveTasksLoop(st, task_ids) ==
    IF task_ids = <<>> THEN st
    ELSE
        LET task_id == Head(task_ids)
            cur == st.heap[st.current_board]
            task_info == find_task_by_id(cur, task_id)
            next ==
                IF task_info.column = 0 THEN BulkNotFound(st, task_id)
                ELSE BulkStep(st, task_id,
                         archive_task(st.heap, st.current_board,
                                      cur.columns[task_info.column].id, task_id))
        IN  ArchiveTasksLoop(next, Tail(task_ids))

archive_tasks(heap, b, task_ids) ==
    LET st == ArchiveTasksLoop([heap |-> heap, current_board |-> b, results |-> <<>>],
                               task_ids)
    IN  BulkReturn(st.heap, st.current_board, st.results)

\* ----------------------------------------------------------- contract_ops.py

\* _get_contract(task): the error of a task without a contract, None otherwise.
_get_contract(task) == IF task.contract = None THEN Some("Task has no contract") ELSE None

\* TaskUpdate values.
UpdateOk(task) == [ok |-> TRUE, task |-> Some(task), error |-> None]

UpdateError(error) == [ok |-> FALSE, task |-> None, error |-> error]

\* updater(task) for the three callables the operations below hand to
\* _update_task_by_id, each a record of its name and the value it closes over.
CallUpdater(updater, task) ==
    CASE updater.of = "setTaskContract" ->
             UpdateOk([task EXCEPT !.contract = Some(updater.contract)])
      [] updater.of = "clearTaskContract" ->
             IF task.contract = None THEN UpdateError(Some("Task has no contract"))
             ELSE UpdateOk([task EXCEPT !.contract = None])
      [] updater.of = "setTaskContractStatus" ->
             IF _get_contract(task) # None THEN UpdateError(_get_contract(task))
             ELSE UpdateOk([task EXCEPT !.contract =
                               Some([Get(task.contract) EXCEPT !.status = updater.status])])

_update_task_by_id(heap, b, taskId, updater) ==
    LET brd == heap[b]
        task_info == find_task_by_id(brd, taskId)
    IN  IF task_info.column = 0 THEN Fail(heap, "Task not found")
        ELSE
            LET column == brd.columns[task_info.column]
                updated == CallUpdater(updater, column.tasks[task_info.index])
            IN  IF ~updated.ok
                THEN Ret(heap, BoardOperationResult(FALSE, NoBoard, updated.error))
                ELSE IF updated.task = None THEN Fail(heap, "Updater returned no task")
                ELSE
                    LET cp == _deep_copy_board(heap, b)
                        cols == cp.heap[cp.ref].columns
                    IN  Ok([cp.heap EXCEPT ![cp.ref].columns =
                               List([i \in 1..Len(cols) |->
                                   IF cols[i].id # column.id THEN cols[i]
                                   ELSE [cols[i] EXCEPT !.tasks =
                                       List([j \in 1..Len(cols[i].tasks) |->
                                           IF cols[i].tasks[j].id = taskId
                                           THEN Get(updated.task)
                                           ELSE cols[i].tasks[j]])]])],
                           cp.ref)

setTaskContract(heap, b, taskId, contract) ==
    _update_task_by_id(heap, b, taskId, [of |-> "setTaskContract", contract |-> contract])

clearTaskContract(heap, b, taskId) ==
    _update_task_by_id(heap, b, taskId, [of |-> "clearTaskContract"])

setTaskContractStatus(heap, b, taskId, status) ==
    _update_task_by_id(heap, b, taskId, [of |-> "setTaskContractStatus", status |-> status])

\* -------------------------------------------------------------- realtime.py
\* A dict is the list of its items [id, value] in insertion order.

\* d[item.id] = item.value for each item in turn: a key that is set again
\* keeps its place and takes the new value.
RECURSIVE DictUpdate(_, _)
DictUpdate(d, items) ==
    IF items = <<>> THEN d
    ELSE LET item == Head(items)
             at == IndexOfId(d, item.id)
         IN  DictUpdate(IF at = 0 THEN Append(d, item) ELSE [d EXCEPT ![at] = item],
                        Tail(items))

ColumnDiff(column_id, before, after, from_index, to_index, changed_fields) ==
    [column_id |-> column_id, before |-> before, after |-> after,
     from_index |-> from_index, to_index |-> to_index,
     changed_fields |-> changed_fields]

\* TaskDiff with the two column ids in each other's place.
TaskDiff_swapped(task_id, before, after, from_column_id, to_column_id, from_index, to_index, changed_fields) ==
    [task_id |-> task_id, before |-> before, after |-> after,
     from_column_id |-> to_column_id, to_column_id |-> from_column_id,
     from_index |-> from_index, to_index |-> to_index,
     changed_fields |-> changed_fields]

TaskDiff(task_id, before, after, from_column_id, to_column_id, from_index, to_index, changed_fields) ==
    [task_id |-> task_id, before |-> before, after |-> after,
     from_column_id |-> from_column_id, to_column_id |-> to_column_id,
     from_index |-> from_index, to_index |-> to_index,
     changed_fields |-> changed_fields]

\* json.dumps(a, sort_keys=True, default=str) == json.dumps(b, ...): on the
\* values of the model (strs, enum values, Nones, lists of them, and models,
\* which default=str writes out field by field) two dumps are the same text
\* exactly when the values are equal.
_is_equal(a, b) == a = b

\* {col.id: (col, index) for index, col in enumerate(columns)}
_index_columns(columns) ==
    DictUpdate(<<>>, List([i \in 1..Len(columns) |->
                         [id |-> columns[i].id,
                          value |-> [col |-> columns[i], index |-> i - 1]]]))

\* for col in columns: for index, task in enumerate(col.tasks):
\*     result[task.id] = (task, col.id, index)
\* _index_tasks returning from inside its loop: the tasks of the first column.
_index_tasks_return_in_loop(columns) ==
    IF columns = <<>> THEN <<>>
    ELSE LET col == columns[1]
         IN  DictUpdate(<<>>,
                        List([i \in 1..Len(col.tasks) |->
                            [id |-> col.tasks[i].id,
                             value |-> [task |-> col.tasks[i], column_id |-> col.id,
                                        index |-> i - 1]]]))

RECURSIVE _index_tasks(_)
_index_tasks(columns) ==
    IF columns = <<>> THEN <<>>
    ELSE LET col == columns[Len(columns)]
         IN  DictUpdate(_index_tasks(SubSeq(columns, 1, Len(columns) - 1)),
                        List([i \in 1..Len(col.tasks) |->
                            [id |-> col.tasks[i].id,
                             value |-> [task |-> col.tasks[i], column_id |-> col.id,
                                        index |-> i - 1]]]))

\* The loop leaving at the first element it keeps.
RECURSIVE Where_first(_, _)
Where_first(d, keep) ==
    IF d = <<>> THEN <<>>
    ELSE IF Head(keep) THEN <<Head(d)>> ELSE Where_first(Tail(d), Tail(keep))

\* [d[i] for i in range(len(d)) if keep[i]]: the elements of d whose flag in
\* keep is set, in the order of d (the comprehensions and the "if ...:
\* append" loops of this file).
RECURSIVE Where(_, _)
Where(d, keep) ==
    IF d = <<>> THEN <<>>
    ELSE (IF Head(keep) THEN <<Head(d)>> ELSE <<>>) \o Where(Tail(d), Tail(keep))

\* _detect_changed_fields passing over tags that were None before.
_detect_changed_fields_set_before(before, after, fields) ==
    Where(fields, List([i \in 1..Len(fields) |->
                           /\ ~_is_equal(before[fields[i]], after[fields[i]])
                           /\ fields[i] = "tags" => before.tags # None]))

\* _detect_changed_fields leaving its loop at the first field that differs.
_detect_changed_fields_first(before, after, fields) ==
    LET changed == Where(fields, List([i \in 1..Len(fields) |->
                                     ~_is_equal(before[fields[i]], after[fields[i]])]))
    IN  IF changed = <<>> THEN <<>> ELSE <<changed[1]>>

\* _detect_changed_fields without the comparison: every field is reported.
_detect_changed_fields_all(before, after, fields) == fields

_detect_changed_fields(before, after, fields) ==
    Where(fields, List([i \in 1..Len(fields) |-> ~_is_equal(before[fields[i]], after[fields[i]])]))

\* The metadata fields the boards of the model carry: protocol_version,
\* schema_url, agent and rules are None on every board.
_get_metadata(brd) == [title |-> brd.title, stats_config |-> brd.stats_config]

diff_boards(previous, next_board) ==
    LET Has(d, id) == IndexOfId(d, id) # 0
        Val(d, id) == d[IndexOfId(d, id)].value
        column_id_to_prev == _index_columns(previous.columns)
        column_id_to_next == _index_columns(next_board.columns)
        ColumnFields(e) ==
            _detect_changed_fields(Val(column_id_to_prev, e.id).col, e.value.col,
                                   <<"title", "order">>)
        prev_tasks == _index_tasks(previous.columns)
        next_tasks == _index_tasks(next_board.columns)
        TaskFields(e) ==
            _detect_changed_fields(Val(prev_tasks, e.id).task, e.value.task,
                <<"title", "description", "related_files", "assignee", "tags",
                  "priority", "due_date", "subtasks", "template">>)
        ColumnAdded(e) == ~Has(column_id_to_prev, e.id)
        ColumnRemoved(e) == ~Has(column_id_to_next, e.id)
        ColumnUpdated(e) == Has(column_id_to_prev, e.id) /\ ColumnFields(e) # <<>>
        ColumnMoved(e) ==
            /\ Has(column_id_to_prev, e.id)
            /\ Val(column_id_to_prev, e.id).index # e.value.index
        TaskAdded(e) == ~Has(prev_tasks, e.id)
        TaskRemoved(e) == ~Has(next_tasks, e.id)
        TaskUpdated(e) == Has(prev_tasks, e.id) /\ TaskFields(e) # <<>>
        TaskMoved(e) ==
            /\ Has(prev_tasks, e.id)
            /\ \/ Val(prev_tasks, e.id).column_id # e.value.column_id
               \/ Val(prev_tasks, e.id).index # e.value.index
        TaskBoth(e, changed_fields) ==
            LET p == Val(prev_tasks, e.id)
            IN  TaskDiff(e.id, Some(p.task), Some(e.value.task),
                         Some(p.column_id), Some(e.value.column_id),
                         Some(p.index), Some(e.value.index), changed_fields)
    IN  [metadata_changed |->
             ~_is_equal(_get_metadata(previous), _get_metadata(next_board)),
         columns_added |->
             LET d == Where(column_id_to_next,
                            List([i \in 1..Len(column_id_to_next) |-> ColumnAdded(column_id_to_next[i])]))
             IN  List([i \in 1..Len(d) |->
                     ColumnDiff(d[i].id, None, Some(d[i].value.col), None,
                                Some(d[i].value.index), None)]),
         columns_removed |->
             LET d == Where(column_id_to_prev,
                            List([i \in 1..Len(column_id_to_prev) |-> ColumnRemoved(column_id_to_prev[i])]))
             IN  List([i \in 1..Len(d) |->
                     ColumnDiff(d[i].id, Some(d[i].value.col), None,
                                Some(d[i].value.index), None, None)]),
         columns_updated |->
             LET d == Where(column_id_to_next,
                            List([i \in 1..Len(column_id_to_next) |-> ColumnUpdated(column_id_to_next[i])]))
             IN  List([i \in 1..Len(d) |->
                     ColumnDiff(d[i].id, Some(Val(column_id_to_prev, d[i].id).col),
                                Some(d[i].value.col), None, None,
                                Some(ColumnFields(d[i])))]),
         columns_moved |->
             LET d == Where(column_id_to_next,
                            List([i \in 1..Len(column_id_to_next) |-> ColumnMoved(column_id_to_next[i])]))
             IN  List([i \in 1..Len(d) |->
                     ColumnDiff(d[i].id, Some(Val(column_id_to_prev, d[i].id).col),
                                Some(d[i].value.col),
                                Some(Val(column_id_to_prev, d[i].id).index),
                                Some(d[i].value.index), None)]),
         tasks_added |->
             LET d == Where(next_tasks, List([i \in 1..Len(next_tasks) |-> TaskAdded(next_tasks[i])]))
             IN  List([i \in 1..Len(d) |->
                     TaskDiff(d[i].id, None, Some(d[i].value.task), None,
                              Some(d[i].value.column_id), None,
                              Some(d[i].value.index), None)]),
         tasks_removed |->
             LET d == Where(prev_tasks, List([i \in 1..Len(prev_tasks) |-> TaskRemoved(prev_tasks[i])]))
             IN  List([i \in 1..Len(d) |->
                     TaskDiff(d[i].id, Some(d[i].value.task), None,
                              Some(d[i].value.column_id), None,
                              Some(d[i].value.index), None, None)]),
         tasks_updated |->
             LET d == Where(next_tasks, List([i \in 1..Len(next_tasks) |-> TaskUpdated(next_tasks[i])]))
             IN  List([i \in 1..Len(d) |-> TaskBoth(d[i], Some(TaskFields(d[i])))]),
         tasks_moved |->
             LET d == Where(next_tasks, List([i \in 1..Len(next_tasks) |-> TaskMoved(next_tasks[i])]))
             IN  List([i \in 1..Len(d) |-> TaskBoth(d[i], None)])]

\* ----------------------------------------------- serializer.py, hashing

\* _model_to_dict leaving out everything but the board's title.
_model_to_dict_title_only(data) == [title |-> data.title]

\* _model_to_dict of a board: model_dump(by_alias=True, exclude_none=True,
\* mode="json").  A model becomes the dict of its fields that are not None,
\* nested models and lists of models likewise; a dict is a function on its
\* keys.
_model_to_dict(data) ==
    LET Dump(model, required) ==
            [k \in {f \in DOMAIN model : f \in required \/ model[f] # None} |->
                IF k \in required THEN model[k] ELSE Get(model[k])]
        TaskDict(task) == Dump(task, {"id", "title"})
        TaskDicts(tasks) == List([i \in 1..Len(tasks) |-> TaskDict(tasks[i])])
        ColumnDict(col) ==
            Dump([col EXCEPT !.tasks = TaskDicts(@)], {"id", "title", "tasks"})
    IN  Dump([data EXCEPT
                 !.columns = List([i \in 1..Len(@) |-> ColumnDict(@[i])]),
                 !.archive = IF @ = None THEN None ELSE Some(TaskDicts(Get(@)))],
             {"title", "columns"})

\* BrainfileSerializer.serialize: the YAML text of the dict between two "---"
\* lines.  The text is modelled by the dict it writes out.
serialize(data) == <<"---", _model_to_dict(data), "---">>

\* hashlib.sha256(content.encode("utf-8")).hexdigest(), taken to be free of
\* collisions: the digest of a content stands for that content only.
hash_board_content(content) == [sha256 |-> content]

\* A digest made of the identity of the board object.
hash_board_of_object(heap, b) == hash_board_content(<<"object", b>>)

hash_board(heap, b) == hash_board_content(serialize(heap[b]))

\* ------------------------------------------------------------ the caller
\* One caller holds a board snapshot (board) and calls an operation on it:
\*     before = deepcopy(board); result = op(board, ...)      (a call action)
\*     if result.board is not None: board = result.board      (Adopt)
\* After a call, board is the input object as the call left it and last holds
\* the call: its name and arguments, the copy taken before it and the result
\* with its board dereferenced.

T(n) == TaskId("task", n)

Txt(c) == <<c>>

InitTask1 ==
    [Task(T(1), Txt("a")) EXCEPT
        !.description = Some(Txt("d")), !.tags = Some(<<"x", "y">>),
        !.priority = Some("high"), !.assignee = Some("ann"),
        !.subtasks = Some(<<Subtask(SubtaskId(T(1), 1), Txt("s"), FALSE),
                            Subtask(SubtaskId(T(1), 2), Txt("t"), TRUE)>>)]

InitTask2 == Task(T(2), Txt("b"))

InitTask3 ==
    [Task(T(3), Txt("c")) EXCEPT
        !.related_files = Some(<<"f.py">>), !.due_date = Some("2024-12-31"),
        !.template = Some("bug"), !.contract = Some(Contract("ready"))]

InitTaskBug == Task(TaskId("bug", 7), Txt("g"))

InitTaskArchived == Task(TaskId("archived", 1), Txt("z"))

InitBoard(todo, done, archive) ==
    Board("B", <<Column("todo", "To Do", todo), Column("done", "Done", done)>>, archive)

\* Boards a caller can hold: the fixtures of the test suite (an empty board,
\* a board with tasks, a board with an archive) and boards that calls on them
\* lead to.
InitBoards ==
    { InitBoard(<<>>, <<>>, None),
      InitBoard(<<InitTask1, InitTask2>>, <<>>, None),
      InitBoard(<<InitTask2>>, <<InitTaskBug>>, Some(<<InitTaskArchived>>)),
      InitBoard(<<InitTask1, InitTask2, InitTask3>>, <<>>, Some(<<>>)),
      InitBoard(<<InitTask1>>, <<InitTask3>>, Some(<<InitTask2>>)) }

RECURSIVE ActiveTasks(_)
ActiveTasks(columns) ==
    IF columns = <<>> THEN <<>> ELSE Head(columns).tasks \o ActiveTasks(Tail(columns))

ArchiveOf(b) == IF b.archive = None THEN <<>> ELSE Get(b.archive)

Ids(tasks) == {tasks[i].id : i \in 1..Len(tasks)}

\* Arguments the caller draws from: what is on the board, and something that is not.
ColumnArgs == {"todo", "done", "nope"}

TaskArgs(b) == Ids(ActiveTasks(b.columns)) \cup {T(0)}

ArchiveArgs(b) == Ids(ArchiveOf(b)) \cup {T(0)}

\* The subtask ids of the task with that id, and one it does not have.
SubtaskArgs(b, task_id) ==
    LET task_info == find_task_by_id(b, task_id)
        task == b.columns[task_info.column].tasks[task_info.index]
    IN  (IF task_info.column = 0 \/ task.subtasks = None THEN {}
         ELSE Ids(Get(task.subtasks)))
        \cup {SubtaskId(T(0), 1)}

\* Lists of at most n elements of S without a repeated element.
RECURSIVE InjectiveSeqs(_, _)
InjectiveSeqs(S, n) ==
    IF n = 0 THEN {<<>>}
    ELSE LET shorter == InjectiveSeqs(S, n - 1)
         IN  shorter \cup
             UNION {{Append(s, x) : x \in S \ {s[i] : i \in 1..Len(s)}} :
                        s \in {t \in shorter : Len(t) = n - 1}}

\* The id lists a bulk call is given: lists without a repeated id, and lists
\* that name one id twice.
ListArgs(S, n) == InjectiveSeqs(S, n) \cup {<<x, x>> : x \in S}

\* Target indexes: from the end, the front, inside, and past any list.
IndexArgs == {-1, 0, 1, MaxTasks}

TitleArgs == {<<>>, <<" ">>, <<"a">>, <<" ", "b", " ">>}

NoInput ==
    [title |-> <<>>, description |-> None, priority |-> None, tags |-> None,
     assignee |-> None, due_date |-> None, related_files |-> None,
     template |-> None, subtasks |-> None]

TaskInputArgs ==
    {[NoInput EXCEPT !.title = t] : t \in TitleArgs}
    \cup {[NoInput EXCEPT !.title = Txt("a"), !.description = Some(<<" ", "d">>),
                          !.priority = Some("low"), !.tags = Some(<<"x">>),
                          !.template = Some("bug"), !.due_date = Some("2024-12-31"),
                          !.subtasks = Some(<<<<"s", " ">>, <<"t">>>>)],
          [NoInput EXCEPT !.title = Txt("a"), !.description = Some(<<>>),
                          !.priority = Some("urgent"), !.tags = Some(<<>>),
                          !.template = Some(""), !.subtasks = Some(<<>>)]}

NoPatch == TaskPatch(None, _UNSET, _UNSET, _UNSET, _UNSET, _UNSET, _UNSET, _UNSET)

\* The optional fields a TaskPatch carries besides the title.
PatchFields ==
    {"description", "priority", "tags", "assignee", "due_date", "related_files", "template"}

\* Patches of one field: cleared, set to a plain value, set to a value the
\* code does not store as given.
PatchArgs ==
    {NoPatch,
     [NoPatch EXCEPT !.title = Some(<<" ", "t">>), !.priority = Set(Some("low")),
                     !.tags = Set(Some(<<"z">>))]}
    \cup {[NoPatch EXCEPT ![f] = Set(None)] : f \in PatchFields}
    \cup {[NoPatch EXCEPT !.description = Set(Some(d))] : d \in {<<"e">>, <<" ", "e">>, <<>>}}
    \cup {[NoPatch EXCEPT !.priority = Set(Some(v))] : v \in {"low", "urgent"}}
    \cup {[NoPatch EXCEPT !.template = Set(Some(v))] : v \in {"feature", "story"}}
    \cup {[NoPatch EXCEPT !.tags = Set(Some(v))] : v \in {<<"z">>, <<>>}}
    \cup {[NoPatch EXCEPT !.related_files = Set(Some(v))] : v \in {<<"g.py">>, <<>>}}
    \cup {[NoPatch EXCEPT !.assignee = Set(Some("bob"))],
          [NoPatch EXCEPT !.due_date = Set(Some("2025-01-01"))],
          [NoPatch EXCEPT !.title = Some(<<" ">>)]}

\* The patches a bulk call applies.
BulkPatchArgs ==
    {[NoPatch EXCEPT !.description = Set(None)],
     [NoPatch EXCEPT !.title = Some(<<" ", "t">>), !.priority = Set(Some("low")),
                     !.tags = Set(Some(<<"z">>))]}

Idle ==
    [op |-> "idle", args |-> <<>>, before |-> None, success |-> TRUE,
     board |-> None, same_object |-> FALSE, error |-> None, bulk |-> FALSE,
     results |-> <<>>, success_count |-> 0, failure_count |-> 0]

CanCall == last = Idle /\ nops < MaxOps

\* A call of a single-item operation, r what it left behind.
Returned(op, args, r) ==
    /\ board' = r.heap[1]
    /\ last' = [op |-> op, args |-> args, before |-> Some(board),
                success |-> r.result.success,
                board |-> IF r.result.board = NoBoard THEN None
                          ELSE Some(r.heap[r.result.board]),
                same_object |-> r.result.board = 1,
                error |-> r.result.error, bulk |-> FALSE,
                results |-> <<>>, success_count |-> 0, failure_count |-> 0]
    /\ UNCHANGED <<mem, threads>>

Call(op, args, r) ==
    /\ CanCall
    /\ nops' = nops + 1
    /\ Returned(op, args, r)

\* A call of a bulk operation.
BulkReturned(op, args, r) ==
    /\ board' = r.heap[1]
    /\ last' = [op |-> op, args |-> args, before |-> Some(board),
                success |-> r.result.success,
                board |-> IF r.result.board = NoBoard THEN None
                          ELSE Some(r.heap[r.result.board]),
                same_object |-> r.result.board = 1,
                error |-> None, bulk |-> TRUE,
                results |-> r.result.results,
                success_count |-> r.result.success_count,
                failure_count |-> r.result.failure_count]
    /\ UNCHANGED <<mem, threads>>

BulkCall(op, args, r) ==
    /\ CanCall
    /\ nops' = nops + 1
    /\ BulkReturned(op, args, r)

\* The caller takes the returned board, if any, as its snapshot.
Adopt ==
    /\ last # Idle
    /\ board' = IF last.board # None THEN Get(last.board) ELSE board
    /\ last' = Idle
    /\ UNCHANGED <<nops, mem, threads>>

Init ==
    /\ board \in InitBoards
    /\ last = Idle
    /\ nops = 0
    /\ mem = <<>>
    /\ threads = <<>>

MoveTask ==
    \E task_id \in TaskArgs(board), from_column_id \in ColumnArgs,
       to_column_id \in ColumnArgs, to_index \in IndexArgs :
        Call("move_task",
             [task_id |-> task_id, from_column_id |-> from_column_id,
              to_column_id |-> to_column_id, to_index |-> to_index],
             move_task(<<board>>, 1, task_id, from_column_id, to_column_id, to_index))

AddTask ==
    \E column_id \in ColumnArgs, input_data \in TaskInputArgs :
        /\ Len(ActiveTasks(board.columns)) + Len(ArchiveOf(board)) < MaxTasks
        /\ Call("add_task", [column_id |-> column_id, input_data |-> input_data],
                add_task(<<board>>, 1, column_id, input_data))

UpdateTask ==
    \E column_id \in ColumnArgs, task_id \in TaskArgs(board),
       new_title \in {<<>>, Txt("u")} :
        Call("update_task",
             [column_id |-> column_id, task_id |-> task_id, new_title |-> new_title,
              new_description |-> Txt("e")],
             update_task(<<board>>, 1, column_id, task_id, new_title, Txt("e")))

DeleteTask ==
    \E column_id \in ColumnArgs, task_id \in TaskArgs(board) :
        Call("delete_task", [column_id |-> column_id, task_id |-> task_id],
             delete_task(<<board>>, 1, column_id, task_id))

ArchiveTask ==
    \E column_id \in ColumnArgs, task_id \in TaskArgs(board) :
        Call("archive_task", [column_id |-> column_id, task_id |-> task_id],
             archive_task(<<board>>, 1, column_id, task_id))

RestoreTask ==
    \E task_id \in ArchiveArgs(board) \cup TaskArgs(board), to_column_id \in ColumnArgs :
        Call("restore_task", [task_id |-> task_id, to_column_id |-> to_column_id],
             restore_task(<<board>>, 1, task_id, to_column_id))

PatchTask ==
    \E task_id \in TaskArgs(board), patch \in PatchArgs :
        Call("patch_task", [task_id |-> task_id, patch |-> patch],
             patch_task(<<board>>, 1, task_id, patch))

UpdateBoardTitle ==
    \E new_title \in {"B", "C"} :
        Call("update_board_title", [new_title |-> new_title],
             update_board_title(<<board>>, 1, new_title))

UpdateStatsConfig ==
    \E columns \in {<<"todo">>} :
        Call("update_stats_config", [columns |-> columns],
             update_stats_config(<<board>>, 1, columns))

ToggleSubtask ==
    \E task_id \in TaskArgs(board) : \E subtask_id \in SubtaskArgs(board, task_id) :
        Call("toggle_subtask", [task_id |-> task_id, subtask_id |-> subtask_id],
             toggle_subtask(<<board>>, 1, task_id, subtask_id))

AddSubtask ==
    \E task_id \in TaskArgs(board), title \in {<<" ">>, <<"n", " ">>} :
        Call("add_subtask", [task_id |-> task_id, title |-> title],
             add_subtask(<<board>>, 1, task_id, title))

DeleteSubtask ==
    \E task_id \in TaskArgs(board) : \E subtask_id \in SubtaskArgs(board, task_id) :
        Call("delete_subtask", [task_id |-> task_id, subtask_id |-> subtask_id],
             delete_subtask(<<board>>, 1, task_id, subtask_id))

UpdateSubtask ==
    \E task_id \in TaskArgs(board) :
      \E subtask_id \in SubtaskArgs(board, task_id), title \in {<<>>, <<" ", "m">>} :
        Call("update_subtask",
             [task_id |-> task_id, subtask_id |-> subtask_id, title |-> title],
             update_subtask(<<board>>, 1, task_id, subtask_id, title))

SetSubtasksCompleted ==
    \E task_id \in TaskArgs(board) :
      \E subtask_ids \in ListArgs(SubtaskArgs(board, task_id), MaxBulk),
         completed \in BOOLEAN :
        Call("set_subtasks_completed",
             [task_id |-> task_id, subtask_ids |-> subtask_ids, completed |-> completed],
             set_subtasks_completed(<<board>>, 1, task_id, subtask_ids, completed))

SetAllSubtasksCompleted ==
    \E task_id \in TaskArgs(board), completed \in BOOLEAN :
        Call("set_all_subtasks_completed", [task_id |-> task_id, completed |-> completed],
             set_all_subtasks_completed(<<board>>, 1, task_id, completed))

SetTaskContract ==
    \E taskId \in TaskArgs(board) :
        Call("setTaskContract", [taskId |-> taskId, contract |-> Contract("ready")],
             setTaskContract(<<board>>, 1, taskId, Contract("ready")))

ClearTaskContract ==
    \E taskId \in TaskArgs(board) :
        Call("clearTaskContract", [taskId |-> taskId],
             clearTaskContract(<<board>>, 1, taskId))

SetTaskContractStatus ==
    \E taskId \in TaskArgs(board) :
        Call("setTaskContractStatus", [taskId |-> taskId, status |-> "done"],
             setTaskContractStatus(<<board>>, 1, taskId, "done"))

MoveTasks ==
    \E task_ids \in ListArgs(TaskArgs(board), MaxBulk), to_column_id \in ColumnArgs :
        BulkCall("move_tasks", [task_ids |-> task_ids, to_column_id |-> to_column_id],
                 move_tasks(<<board>>, 1, task_ids, to_column_id))

PatchTasks ==
    \E task_ids \in ListArgs(TaskArgs(board), MaxBulk), patch \in BulkPatchArgs :
        BulkCall("patch_tasks", [task_ids |-> task_ids, patch |-> patch],
                 patch_tasks(<<board>>, 1, task_ids, patch))

DeleteTasks ==
    \E task_ids \in ListArgs(TaskArgs(board), MaxBulk) :
        BulkCall("delete_tasks", [task_ids |-> task_ids],
                 delete_tasks(<<board>>, 1, task_ids))

ArchiveTasks ==
    \E task_ids \in ListArgs(TaskArgs(board), MaxBulk) :
        BulkCall("archive_tasks", [task_ids |-> task_ids],
                 archive_tasks(<<board>>, 1, task_ids))

Next ==
    \/ Adopt
    \/ MoveTask
    \/ AddTask
    \/ UpdateTask
    \/ DeleteTask
    \/ ArchiveTask
    \/ RestoreTask
    \/ PatchTask
    \/ UpdateBoardTitle
    \/ UpdateStatsConfig
    \/ ToggleSubtask
    \/ AddSubtask
    \/ DeleteSubtask
    \/ UpdateSubtask
    \/ SetSubtasksCompleted
    \/ SetAllSubtasksCompleted
    \/ SetTaskContract
    \/ ClearTaskContract
    \/ SetTaskContractStatus
    \/ MoveTasks
    \/ PatchTasks
    \/ DeleteTasks
    \/ ArchiveTasks

Spec == Init /\ [][Next]_vars

\* ------------------------------------------------- a caller in a session
\* The same caller making any number of calls, each on the board the previous
\* call returned. The boards are kept small: at most MaxSeqTasks tasks with
\* archive included, task numbers up to MaxSeqId.

SeqTask(id) == Task(id, Txt("a"))

SeqInitBoards ==
    { InitBoard(<<SeqTask(T(1)), SeqTask(T(2))>>, <<>>, None),
      InitBoard(<<SeqTask(T(1))>>, <<SeqTask(TaskId("bug", 7))>>, None) }

SeqColumnArgs == {"todo", "done"}

ActiveIds(b) == Ids(ActiveTasks(b.columns))

\* One id, or two ids (which may be the same id).
SeqListArgs(S) == {<<x>> : x \in S} \cup {<<x, y>> : x \in S, y \in S}

SeqPatch == [NoPatch EXCEPT !.description = Set(None)]

SeqCall(op, args, r) ==
    /\ last = Idle
    /\ UNCHANGED nops
    /\ Returned(op, args, r)

SeqBulkCall(op, args, r) ==
    /\ last = Idle
    /\ UNCHANGED nops
    /\ BulkReturned(op, args, r)

SeqInit ==
    /\ board \in SeqInitBoards
    /\ last = Idle
    /\ nops = 0
    /\ mem = <<>>
    /\ threads = <<>>

SeqAddTask ==
    \E column_id \in SeqColumnArgs :
        /\ Len(ActiveTasks(board.columns)) + Len(ArchiveOf(board)) < MaxSeqTasks
        /\ \A id \in ActiveIds(board) : id.prefix = DEFAULT_PREFIX => id.num < MaxSeqId
        /\ SeqCall("add_task",
                   [column_id |-> column_id, input_data |-> [NoInput EXCEPT !.title = Txt("a")]],
                   add_task(<<board>>, 1, column_id, [NoInput EXCEPT !.title = Txt("a")]))

SeqMoveTask ==
    \E task_id \in ActiveIds(board), from_column_id \in SeqColumnArgs,
       to_column_id \in SeqColumnArgs :
        SeqCall("move_task",
                [task_id |-> task_id, from_column_id |-> from_column_id,
                 to_column_id |-> to_column_id, to_index |-> 0],
                move_task(<<board>>, 1, task_id, from_column_id, to_column_id, 0))

SeqDeleteTask ==
    \E column_id \in SeqColumnArgs, task_id \in ActiveIds(board) :
        SeqCall("delete_task", [column_id |-> column_id, task_id |-> task_id],
                delete_task(<<board>>, 1, column_id, task_id))

SeqArchiveTask ==
    \E column_id \in SeqColumnArgs, task_id \in ActiveIds(board) :
        SeqCall("archive_task", [column_id |-> column_id, task_id |-> task_id],
                archive_task(<<board>>, 1, column_id, task_id))

SeqRestoreTask ==
    \E task_id \in Ids(ArchiveOf(board)), to_column_id \in SeqColumnArgs :
        SeqCall("restore_task", [task_id |-> task_id, to_column_id |-> to_column_id],
                restore_task(<<board>>, 1, task_id, to_column_id))

SeqPatchTask ==
    \E task_id \in ActiveIds(board) :
        SeqCall("patch_task", [task_id |-> task_id, patch |-> SeqPatch],
                patch_task(<<board>>, 1, task_id, SeqPatch))

SeqMoveTasks ==
    \E task_ids \in SeqListArgs(ActiveIds(board)), to_column_id \in SeqColumnArgs :
        SeqBulkCall("move_tasks", [task_ids |-> task_ids, to_column_id |-> to_column_id],
                    move_tasks(<<board>>, 1, task_ids, to_column_id))

SeqPatchTasks ==
    \E task_ids \in SeqListArgs(ActiveIds(board)) :
        SeqBulkCall("patch_tasks", [task_ids |-> task_ids, patch |-> SeqPatch],
                    patch_tasks(<<board>>, 1, task_ids, SeqPatch))

SeqDeleteTasks ==
    \E task_ids \in SeqListArgs(ActiveIds(board)) :
        SeqBulkCall("delete_tasks", [task_ids |-> task_ids],
                    delete_tasks(<<board>>, 1, task_ids))

SeqArchiveTasks ==
    \E task_ids \in SeqListArgs(ActiveIds(board)) :
        SeqBulkCall("archive_tasks", [task_ids |-> task_ids],
                    archive_tasks(<<board>>, 1, task_ids))

SeqNext ==
    \/ Adopt
    \/ SeqAddTask
    \/ SeqMoveTask
    \/ SeqDeleteTask
    \/ SeqArchiveTask
    \/ SeqRestoreTask
    \/ SeqPatchTask
    \/ SeqMoveTasks
    \/ SeqPatchTasks
    \/ SeqDeleteTasks
    \/ SeqArchiveTasks

SpecSeq == SeqInit /\ [][SeqNext]_vars


\* ---------------------------------------- a caller in a session on subtasks
\* The caller calls the subtask operations one after another on a board of one
\* task, going on with the board a call returned.  The task starts with
\* subtasks: generated ids, and ids written by hand (a number followed by
\* text, the id of another task's subtask), each id once.

SubInit ==
    /\ board \in
           { InitBoard(<<InitTask1>>, <<>>, None),
             InitBoard(<<[InitTask2 EXCEPT !.subtasks =
                             Some(<<Subtask(SubtaskId(T(2), 1), Txt("s"), FALSE)>>)]>>,
                       <<>>, None),
             InitBoard(<<[InitTask2 EXCEPT !.subtasks =
                             Some(<<Subtask([SubtaskId(T(2), 2) EXCEPT !.tail = "x"],
                                            Txt("s"), FALSE),
                                    Subtask(SubtaskId(T(0), 1), Txt("t"), TRUE)>>)]>>,
                       <<>>, None) }
    /\ last = Idle
    /\ nops = 0
    /\ mem = <<>>
    /\ threads = <<>>

\* The caller takes the board of the result, if there is one, and is ready
\* for the next call.
SubAdopt ==
    /\ last # Idle
    /\ LET b == IF last.board # None THEN Get(last.board) ELSE board
           tasks == ActiveTasks(b.columns)
       IN  /\ \A i \in 1..Len(tasks) :
                  tasks[i].subtasks # None =>
                      /\ Len(Get(tasks[i].subtasks)) <= MaxSubtasks
                      /\ \A j \in 1..Len(Get(tasks[i].subtasks)) :
                             Get(tasks[i].subtasks)[j].id.idx <= MaxSubId
           /\ board' = b
    /\ last' = Idle
    /\ nops' = 0
    /\ UNCHANGED <<mem, threads>>

SubNext ==
    \/ SubAdopt
    \/ AddSubtask
    \/ DeleteSubtask
    \/ ToggleSubtask
    \/ UpdateSubtask
    \/ SetSubtasksCompleted
    \/ SetAllSubtasksCompleted

SpecSub == SubInit /\ [][SubNext]_vars

\* ---------------------------------------------------- concurrent callers
\* NumCallers callers call an operation on one shared input board, mem[1].
\* A call is three steps: the checks on the input (which return a failure, or
\* leave what the code keeps in local variables), new_board =
\* _deep_copy_board(board), and the changes made to new_board.  The callers'
\* steps interleave in every order.  board is the deep copy of the input taken
\* before the calls start.  The input is only read, so the copy step reads a
\* board nobody writes and is one step.

NoLocals == [error |-> None, column_id |-> "", task_index |-> 0, task |-> None]

\* patch_task up to the copy: task_info, and column = task_info.column.
patch_task_check(brd, task_id) ==
    LET task_info == find_task_by_id(brd, task_id)
    IN  IF task_info.column = 0
        THEN [NoLocals EXCEPT !.error = Some("Task not found")]
        ELSE [NoLocals EXCEPT !.column_id = brd.columns[task_info.column].id]

\* The patch applied to the input board itself, the copy left as it was taken.
patch_task_modify_in_place(heap, new_board, column_id, task_id, patch) ==
    LET tasks == TasksOf(heap[1], column_id)
        task == tasks[IndexOfId(tasks, task_id)]
    IN  SetTask(heap, 1, column_id, task_id, ApplyPatch(task, patch))

\* patch_task after the copy: the loops over new_board.columns and col.tasks.
patch_task_modify(heap, new_board, column_id, task_id, patch) ==
    LET tasks == TasksOf(heap[new_board], column_id)
        task == tasks[IndexOfId(tasks, task_id)]
    IN  SetTask(heap, new_board, column_id, task_id, ApplyPatch(task, patch))

\* move_task up to the copy: task_index and task are kept.
move_task_check(brd, task_id, from_column_id, to_column_id) ==
    LET from_column == find_column_by_id(brd, from_column_id)
        to_column == find_column_by_id(brd, to_column_id)
        task_index ==
            IF from_column = 0 THEN 0
            ELSE IndexOfId(brd.columns[from_column].tasks, task_id)
    IN  IF from_column = 0
        THEN [NoLocals EXCEPT !.error = Some("Source column not found")]
        ELSE IF to_column = 0
        THEN [NoLocals EXCEPT !.error = Some("Target column not found")]
        ELSE IF task_index = 0
        THEN [NoLocals EXCEPT !.error = Some("Task not found in column")]
        ELSE [NoLocals EXCEPT !.task_index = task_index,
                              !.task = Some(brd.columns[from_column].tasks[task_index])]

\* move_task after the copy: the loop over new_board.columns, with the
\* task_index and the task found in the input.
move_task_modify(heap, new_board, task_id, from_column_id, to_column_id, to_index, task_index, task) ==
    LET Moved(col) ==
            IF col.id = from_column_id /\ col.id = to_column_id
            THEN ListInsert(ListPop(col.tasks, task_index - 1), to_index,
                            col.tasks[task_index])
            ELSE IF col.id = from_column_id
            THEN WithoutId(col.tasks, task_id)
            ELSE IF col.id = to_column_id
            THEN ListInsert(col.tasks, to_index, task)
            ELSE col.tasks
        cols == heap[new_board].columns
    IN  [heap EXCEPT ![new_board].columns =
            List([i \in 1..Len(cols) |-> [cols[i] EXCEPT !.tasks = Moved(cols[i])]])]

\* The calls the callers make: each operation on a task of the board, on a
\* task the board does not have and, for move_task, to a missing column.
ConcCalls ==
    LET ConcCall(op, task_id, column_id, to_column_id, to_index, patch) ==
            [op |-> op, task_id |-> task_id, column_id |-> column_id,
             to_column_id |-> to_column_id, to_index |-> to_index, patch |-> patch]
    IN  {ConcCall("patch_task", t, "", "", 0, p) :
            t \in {T(1), T(0)},
            p \in {[NoPatch EXCEPT !.title = Some(<<" ", "t">>),
                                   !.priority = Set(Some("low"))],
                   [NoPatch EXCEPT !.description = Set(None)]}}
        \cup {ConcCall("move_task", T(1), "todo", c, i, NoPatch) :
                 c \in {"todo", "done", "nope"}, i \in {0, 1}}
        \cup {ConcCall("move_task", T(2), "done", "todo", 0, NoPatch)}

ConcInit ==
    /\ board \in { InitBoard(<<InitTask1, InitTask2>>, <<>>, None),
                   InitBoard(<<SeqTask(T(1))>>, <<SeqTask(T(2))>>, None) }
    /\ mem = <<board>>
    /\ threads \in [1..NumCallers ->
           {[pc |-> "check", call |-> c, locals |-> NoLocals, new_board |-> NoBoard,
             result |-> BoardOperationResult(FALSE, NoBoard, None)] :
            c \in ConcCalls}]
    /\ last = Idle
    /\ nops = 0

\* Caller k runs the checks of op: it returns the failure or goes on.
Checked(k, op, locals) ==
    /\ threads[k].pc = "check"
    /\ threads[k].call.op = op
    /\ threads' = [threads EXCEPT ![k] =
           IF locals.error # None
           THEN [@ EXCEPT !.pc = "done",
                          !.result = BoardOperationResult(FALSE, NoBoard, locals.error)]
           ELSE [@ EXCEPT !.pc = "copy", !.locals = locals]]
    /\ UNCHANGED <<board, last, nops, mem>>

\* Caller k changes its new_board and returns it.
Modified(k, op, heap2) ==
    /\ threads[k].pc = "modify"
    /\ threads[k].call.op = op
    /\ mem' = heap2
    /\ threads' = [threads EXCEPT ![k] =
           [@ EXCEPT !.pc = "done",
                     !.result = BoardOperationResult(TRUE, threads[k].new_board, None)]]
    /\ UNCHANGED <<board, last, nops>>

PatchTaskCheck ==
    \E k \in 1..NumCallers :
        Checked(k, "patch_task", patch_task_check(mem[1], threads[k].call.task_id))

MoveTaskCheck ==
    \E k \in 1..NumCallers :
        Checked(k, "move_task",
                move_task_check(mem[1], threads[k].call.task_id,
                                threads[k].call.column_id, threads[k].call.to_column_id))

\* new_board = _deep_copy_board(board)
ConcCopy ==
    \E k \in 1..NumCallers :
        /\ threads[k].pc = "copy"
        /\ LET cp == _deep_copy_board(mem, 1)
           IN  /\ mem' = cp.heap
               /\ threads' = [threads EXCEPT ![k] =
                      [@ EXCEPT !.pc = "modify", !.new_board = cp.ref]]
        /\ UNCHANGED <<board, last, nops>>

PatchTaskModify ==
    \E k \in 1..NumCallers :
        LET t == threads[k]
        IN  Modified(k, "patch_task",
                     patch_task_modify(mem, t.new_board, t.locals.column_id,
                                       t.call.task_id, t.call.patch))

MoveTaskModify ==
    \E k \in 1..NumCallers :
        LET t == threads[k]
        IN  Modified(k, "move_task",
                     move_task_modify(mem, t.new_board, t.call.task_id,
                                      t.call.column_id, t.call.to_column_id,
                                      t.call.to_index, t.locals.task_index,
                                      Get(t.locals.task)))

ConcNext ==
    \/ PatchTaskCheck
    \/ MoveTaskCheck
    \/ ConcCopy
    \/ PatchTaskModify
    \/ MoveTaskModify

SpecConc == ConcInit /\ [][ConcNext]_vars

\* ------------------------------------------------- a watcher of snapshots
\* A watcher holds the previous snapshot (board), gets the next one, hashes
\* both and calls diff_boards on them.  The next snapshot is the previous
\* one, the previous one edited by hand (a column or a task taken out, a
\* column retitled or given an order, the columns reversed), or what one
\* operation or two return for it.

\* The next snapshots for a previous one, each with how it came about.
NextSnapshots(previous) ==
    LET Snapshot(via, task_id, column_id, to_column_id, next_board) ==
            [via |-> via, task_id |-> task_id, column_id |-> column_id,
             to_column_id |-> to_column_id, next_board |-> next_board]
        Returned_(r) == r.heap[r.result.board]
        columns == {previous.columns[i].id : i \in 1..Len(previous.columns)}
        tasks == Ids(ActiveTasks(previous.columns))
        Retitled == [NoPatch EXCEPT !.title = Some(Txt("t")), !.tags = Set(Some(<<"z">>))]
        Moves == {x \in tasks \X columns \X columns \X {0, 1} :
                     move_task(<<previous>>, 1, x[1], x[2], x[3], x[4]).result.success}
        Moved(m) == Returned_(move_task(<<previous>>, 1, m[1], m[2], m[3], m[4]))
    IN  {Snapshot("same", T(0), "", "", previous)}
        \cup {Snapshot("remove_column", T(0), c, "",
                       [previous EXCEPT !.columns = WithoutId(@, c)]) : c \in columns}
        \cup {Snapshot("move_task", m[1], m[2], m[3], Moved(m)) : m \in Moves}
        \cup {Snapshot("move_and_patch", m[1], m[2], m[3],
                       Returned_(patch_task(<<Moved(m)>>, 1, m[1], Retitled))) :
                 m \in Moves}
        \cup {Snapshot("patch_task", t, "", "",
                       Returned_(patch_task(<<previous>>, 1, t, patch))) :
                 t \in tasks,
                 patch \in {NoPatch, Retitled,
                            [NoPatch EXCEPT !.tags = Set(Some(<<"y", "x">>))]}}
        \cup {Snapshot("toggle_subtask", t, "", "",
                       Returned_(toggle_subtask(<<previous>>, 1, t, SubtaskId(t, 1)))) :
                 t \in {x \in tasks :
                           toggle_subtask(<<previous>>, 1, x, SubtaskId(x, 1)).result.success}}
        \cup {Snapshot("setTaskContract", t, "", "",
                       Returned_(setTaskContract(<<previous>>, 1, t, Contract("done")))) :
                 t \in tasks}
        \cup {Snapshot("archive_task", m[1], m[2], "",
                       Returned_(archive_task(<<previous>>, 1, m[2], m[1]))) :
                 m \in {x \in tasks \X columns :
                           archive_task(<<previous>>, 1, x[2], x[1]).result.success}}
        \cup {Snapshot("add_task", T(0), c, "",
                       Returned_(add_task(<<previous>>, 1, c,
                                          [NoInput EXCEPT !.title = Txt("a")]))) :
                 c \in columns}
        \cup {Snapshot("update_board_title", T(0), "", "",
                       Returned_(update_board_title(<<previous>>, 1, "C"))),
              Snapshot("update_stats_config", T(0), "", "",
                       Returned_(update_stats_config(<<previous>>, 1, <<"todo">>))),
              Snapshot("reverse_columns", T(0), "", "",
                       [previous EXCEPT !.columns =
                           List([i \in 1..Len(@) |-> @[Len(@) + 1 - i]])])}
        \cup {Snapshot("remove_task", t, "", "",
                       [previous EXCEPT !.columns =
                           List([i \in 1..Len(@) |-> [@[i] EXCEPT !.tasks = WithoutId(@, t)]])]) :
                 t \in tasks}
        \cup {Snapshot("edit_column", T(0), c, "",
                       [previous EXCEPT !.columns =
                           List([i \in 1..Len(@) |->
                               IF @[i].id # c THEN @[i]
                               ELSE IF edit = "title" THEN [@[i] EXCEPT !.title = "X"]
                               ELSE [@[i] EXCEPT !.title = "X", !.order = Some(1)]])]) :
                 c \in columns, edit \in {"title", "both"}}

\* The previous snapshot is a board of the caller or a board of three
\* columns; its column ids and the ids of its tasks are unique.
DiffInit ==
    /\ board \in InitBoards \cup
           { Board("B", <<Column("todo", "To Do", <<InitTask1, InitTask2>>),
                         Column("doing", "Doing", <<InitTask3>>),
                         Column("done", "Done", <<>>)>>, None),
             Board("B", <<Column("todo", "To Do", <<InitTask2>>),
                         Column("doing", "Doing", <<InitTask1, InitTask3>>),
                         Column("done", "Done", <<InitTaskBug>>)>>,
                   Some(<<InitTaskArchived>>)) }
    /\ last = Idle
    /\ nops = 0
    /\ mem = <<>>
    /\ threads = <<>>

Diff ==
    /\ last = Idle
    /\ \E s \in NextSnapshots(board) :
           LET heap == <<board, s.next_board>>
               cp == _deep_copy_board(heap, 1)
           IN  last' = [op |-> "diff_boards", args |-> s,
                        hashes |-> [previous |-> hash_board(heap, 1),
                                    next_board |-> hash_board(heap, 2),
                                    copy |-> hash_board(cp.heap, cp.ref)],
                        diff |-> diff_boards(board, s.next_board),
                        reverse |-> diff_boards(s.next_board, board)]
    /\ UNCHANGED <<board, nops, mem, threads>>

SpecDiff == DiffInit /\ [][Diff]_vars

\* ================================================================ claims

Min(a, b) == IF a < b THEN a ELSE b

Called == last # Idle

\* C1: after every call of a Mutation Layer operation, single-item or bulk,
\* successful or failed, the input board equals the deep copy taken before
\* the call.
C1_InputUnchanged == Called => board = Get(last.before)

\* A bulk call that failed on one item and changed the board it returned: the
\* input has both a reason and a chance to be altered.
C1_Witness ==
    /\ last.op = "archive_tasks" /\ ~last.success
    /\ last.board # None /\ Get(last.board) # Get(last.before)

\* C2: a single-item operation returns success with a board and no error, or
\* failure with no board and an error string.
C2_ResultShape ==
    (Called /\ ~last.bulk) =>
        \/ last.success /\ last.board # None /\ last.error = None
        \/ ~last.success /\ last.board = None /\ last.error # None

\* A contract operation refused by its updater: the error travels from the
\* updater through _update_task_by_id.
C2_Witness ==
    /\ last.op = "clearTaskContract" /\ ~last.success
    /\ last.error = Some("Task has no contract") /\ last.board = None

\* C10: a successful move_task with to_index >= 0 leaves the task at index
\* min(to_index, k) of the target column, k the number of other tasks there;
\* the source column no longer holds it when the columns differ, and the other
\* tasks of every column keep their order.
C10_MoveIndex ==
    (last.op = "move_task" /\ last.success /\ last.args.to_index >= 0) =>
        LET b0 == Get(last.before)
            b1 == Get(last.board)
            a == last.args
            NotIt(t) == t.id # a.task_id
            others == SelectSeq(TasksOf(b0, a.to_column_id), NotIt)
            at == Min(a.to_index, Len(others)) + 1
            moved == CHOOSE t \in {TasksOf(b0, a.from_column_id)[i] :
                                       i \in 1..Len(TasksOf(b0, a.from_column_id))} :
                         t.id = a.task_id
        IN  /\ Len(TasksOf(b1, a.to_column_id)) = Len(others) + 1
            /\ TasksOf(b1, a.to_column_id)[at] = moved
            /\ SelectSeq(TasksOf(b1, a.to_column_id), NotIt) = others
            /\ a.from_column_id # a.to_column_id =>
                   TasksOf(b1, a.from_column_id)
                       = SelectSeq(TasksOf(b0, a.from_column_id), NotIt)
            /\ \A i \in 1..Len(b0.columns) :
                   b0.columns[i].id \notin {a.from_column_id, a.to_column_id} =>
                       b1.columns[i] = b0.columns[i]
            /\ List([i \in 1..Len(b1.columns) |-> b1.columns[i].id])
                   = List([i \in 1..Len(b0.columns) |-> b0.columns[i].id])
            /\ b1.archive = b0.archive

\* A reorder inside one column of three tasks with an index past its end: the
\* task lands last.
C10_Witness ==
    /\ last.op = "move_task" /\ last.success
    /\ last.args.from_column_id = last.args.to_column_id
    /\ last.args.to_index = MaxTasks
    /\ Len(TasksOf(Get(last.before), last.args.to_column_id)) = 3
    /\ TasksOf(Get(last.before), last.args.to_column_id)[1].id = last.args.task_id
    /\ TasksOf(Get(last.board), last.args.to_column_id)[3].id = last.args.task_id

\* The task a call addressed, in the board before the call and in the board
\* the call returned (same column, same index).
TaskBefore(task_id) ==
    LET b0 == Get(last.before)
        ti == find_task_by_id(b0, task_id)
    IN  b0.columns[ti.column].tasks[ti.index]

TaskAfter(task_id) ==
    LET ti == find_task_by_id(Get(last.before), task_id)
    IN  Get(last.board).columns[ti.column].tasks[ti.index]

\* What patch_task stores for a field set to the value v.
Stored(f, v) ==
    CASE f = "description" -> Some(strip(v))
      [] f = "priority" -> IF v \in PriorityValues THEN Some(v) ELSE None
      [] f = "template" -> IF v \in TemplateTypeValues THEN Some(v) ELSE None
      [] f \in {"tags", "related_files"} -> IF v = <<>> THEN None ELSE Some(v)
      [] OTHER -> Some(v)

\* The result of the last patch_task call had it not mentioned field f.
NotMentioned(f) ==
    LET a == last.args
        r == patch_task(<<Get(last.before)>>, 1, a.task_id, [a.patch EXCEPT ![f] = _UNSET])
    IN  r.heap[r.result.board]

PatchedOk == last.op = "patch_task" /\ last.success

\* C4, as stated: a field not mentioned keeps its value, a field set to None
\* is removed, a field set to a value takes that value.
C4_AsStated ==
    PatchedOk =>
        \A f \in PatchFields :
            LET pf == last.args.patch[f]
                t0 == TaskBefore(last.args.task_id)
                t1 == TaskAfter(last.args.task_id)
            IN  /\ pf.unset => t1[f] = t0[f]
                /\ (~pf.unset /\ pf.value = None) => t1[f] = None
                /\ (~pf.unset /\ pf.value # None) => t1[f] = pf.value

\* C4, amended: a field not mentioned keeps its value; a field set to None is
\* removed; a field set to a value takes it as patch_task stores it (the
\* description trimmed, a priority or template that is no member of the
\* enumeration removed, an empty tags or related_files list removed); and for
\* a field that was present, clearing it and not mentioning it give different
\* boards.
C4_PatchThreeWay ==
    PatchedOk =>
        \A f \in PatchFields :
            LET pf == last.args.patch[f]
                t0 == TaskBefore(last.args.task_id)
                t1 == TaskAfter(last.args.task_id)
            IN  /\ pf.unset => t1[f] = t0[f]
                /\ (~pf.unset /\ pf.value = None) => t1[f] = None
                /\ (~pf.unset /\ pf.value # None) => t1[f] = Stored(f, Get(pf.value))
                /\ (~pf.unset /\ pf.value = None /\ t0[f] # None) =>
                       /\ NotMentioned(f) # Get(last.board)
                       /\ NotMentioned(f) = Get(last.before)

\* A description that was present is cleared: the task loses it, and the same
\* patch without the field would have kept it.
C4_Witness ==
    /\ PatchedOk
    /\ ~last.args.patch.description.unset /\ last.args.patch.description.value = None
    /\ TaskBefore(last.args.task_id).description # None
    /\ TaskAfter(last.args.task_id).description = None

\* ---------------------------------------------------------------- bulk claims

\* The board the single-item operation behind the bulk operation op returns
\* for task_id on the board cur (None when it fails). With skip, a move of a
\* task that is already in the target column is no call at all.
ItemBoard(cur, op, args, task_id, skip) ==
    LET ti == find_task_by_id(cur, task_id)
        from == cur.columns[ti.column].id
        r == CASE op = "move_tasks" ->
                      move_task(<<cur>>, 1, task_id, from, args.to_column_id,
                                Len(TasksOf(cur, args.to_column_id)))
               [] op = "delete_tasks" -> delete_task(<<cur>>, 1, from, task_id)
               [] op = "archive_tasks" -> archive_task(<<cur>>, 1, from, task_id)
               [] OTHER -> patch_task(<<cur>>, 1, task_id, args.patch)
    IN  IF op # "patch_tasks" /\ ti.column = 0 THEN None
        ELSE IF skip /\ op = "move_tasks" /\ from = args.to_column_id THEN None
        ELSE IF r.result.success THEN Some(r.heap[r.result.board])
        ELSE None

\* The single-item operation applied to each id in order, each on the board
\* the previous one left, the board kept when an item fails.
RECURSIVE FoldItems(_, _, _, _, _)
FoldItems(cur, task_ids, op, args, skip) ==
    IF task_ids = <<>> THEN cur
    ELSE LET nb == ItemBoard(cur, op, args, Head(task_ids), skip)
         IN  FoldItems(IF nb = None THEN cur ELSE Get(nb), Tail(task_ids), op, args, skip)

BulkCalled == Called /\ last.bulk

TargetMissing ==
    /\ last.op = "move_tasks"
    /\ find_column_by_id(Get(last.before), last.args.to_column_id) = 0

\* C5, as stated: when the target column exists, the board a bulk operation
\* returns is the fold of the single-item operation over the ids, move_task
\* going from the task's current column to the end of the target column.
C5_AsStated ==
    (BulkCalled /\ ~TargetMissing) =>
        last.board = Some(FoldItems(Get(last.before), last.args.task_ids,
                                    last.op, last.args, FALSE))

\* C5, amended: when the target column exists, the board a bulk operation
\* returns is the fold of the single-item operation over the ids in request
\* order, each on the result of the previous one, the board kept when an item
\* fails - except that move_tasks leaves a task that is already in the target
\* column where it is instead of moving it to the end.
C5_BulkIsFold ==
    (BulkCalled /\ ~TargetMissing) =>
        last.board = Some(FoldItems(Get(last.before), last.args.task_ids,
                                    last.op, last.args, TRUE))

\* A bulk call whose first item succeeds and whose second fails: the board
\* returned keeps the first item's change.
C5_Witness ==
    /\ BulkCalled /\ last.op = "patch_tasks"
    /\ Len(last.results) = 2
    /\ last.results[1].success /\ ~last.results[2].success
    /\ last.board # None /\ Get(last.board) # Get(last.before)

\* The ids of a bulk call that name no task of the active columns.
InvalidIds ==
    {i \in 1..Len(last.args.task_ids) :
        find_task_by_id(Get(last.before), last.args.task_ids[i]).column = 0}

\* No id is requested twice.
DistinctIds ==
    \A i, j \in 1..Len(last.args.task_ids) :
        last.args.task_ids[i] = last.args.task_ids[j] => i = j

\* One outcome per requested id in request order, and the counts add up.
OutcomePerId ==
    /\ Len(last.results) = Len(last.args.task_ids)
    /\ \A i \in 1..Len(last.results) : last.results[i].id = last.args.task_ids[i]
    /\ last.success_count + last.failure_count = Len(last.args.task_ids)
    /\ last.success_count = Cardinality({i \in 1..Len(last.results) : last.results[i].success})

\* C6, as stated: one outcome per id in order, the counts sum to n, success
\* exactly when failure_count = 0, and one invalid id among n gives n-1
\* successes and one failure.
C6_AsStated ==
    BulkCalled =>
        /\ OutcomePerId
        /\ last.success <=> last.failure_count = 0
        /\ Cardinality(InvalidIds) = 1 =>
               /\ last.success_count = Len(last.args.task_ids) - 1
               /\ last.failure_count = 1
               /\ ~last.success

\* C6, amended: one outcome per id in request order and success_count +
\* failure_count = n, always. When move_tasks is given a target column that is
\* not on the board, every id fails and success is false (also for n = 0). In
\* every other call success is true exactly when failure_count = 0 and, when
\* no id is requested twice, the ids that fail are the invalid ones: one
\* invalid id among n gives n-1 successes, one failure and success = false.
C6_BulkCounts ==
    BulkCalled =>
        /\ OutcomePerId
        /\ TargetMissing =>
               /\ ~last.success
               /\ last.success_count = 0
               /\ last.failure_count = Len(last.args.task_ids)
        /\ ~TargetMissing =>
               /\ last.success <=> last.failure_count = 0
               /\ DistinctIds =>
                      \A i \in 1..Len(last.results) :
                          last.results[i].success <=> i \notin InvalidIds
               /\ (DistinctIds /\ Cardinality(InvalidIds) = 1) =>
                      /\ last.success_count = Len(last.args.task_ids) - 1
                      /\ last.failure_count = 1
                      /\ ~last.success

\* The last of MaxBulk ids is invalid: MaxBulk - 1 successes, one failure.
C6_Witness ==
    /\ BulkCalled /\ last.op = "delete_tasks"
    /\ Len(last.args.task_ids) = MaxBulk
    /\ InvalidIds = {MaxBulk}
    /\ last.success_count = MaxBulk - 1 /\ last.failure_count = 1 /\ ~last.success

\* C7, as stated: every bulk operation returns a board, also when success is
\* false; when every item fails it has the contents of the input board.
C7_AsStated ==
    BulkCalled =>
        /\ last.board # None
        /\ last.success_count = 0 => last.board = last.before

\* C7, amended: a bulk operation returns a board whatever the number of failed
\* items, with the contents of the input board when every item fails - except
\* move_tasks given a target column that is not on the board, which returns no
\* board.
C7_BulkBoard ==
    BulkCalled =>
        IF TargetMissing THEN last.board = None
        ELSE /\ last.board # None
             /\ last.success_count = 0 => last.board = last.before

\* Every item of a bulk call failed and the input board comes back.
C7_Witness ==
    /\ BulkCalled /\ ~TargetMissing
    /\ Len(last.args.task_ids) > 0 /\ last.success_count = 0 /\ ~last.success
    /\ last.board = last.before

\* ------------------------------------------------------------- task ids

\* No task id appears twice in the active columns of b.
UniqueActiveIds(b) ==
    LET tasks == ActiveTasks(b.columns)
    IN  \A i, j \in 1..Len(tasks) : tasks[i].id = tasks[j].id => i = j

\* C3, as stated: from a board of unique task ids, every board a sequence of
\* mutation operations leads to has each id at most once in the active columns.
C3_UniqueIds ==
    /\ UniqueActiveIds(board)
    /\ (Called /\ last.board # None) => UniqueActiveIds(Get(last.board))

AddedOk == last.op = "add_task" /\ last.success

\* The task add_task appended: the last one of the column it was given.
NewTask == LET tasks == TasksOf(Get(last.board), last.args.column_id)
           IN  tasks[Len(tasks)]

\* C8: the id add_task assigns is the id of no task that was in the active
\* columns, whatever calls came before.
C8_AddNoDuplicate ==
    AddedOk => NewTask.id \notin ActiveIds(Get(last.before))

\* add_task succeeds on a board from which the highest-numbered task was
\* archived before, next to a task that stayed.
C8_Witness ==
    /\ AddedOk
    /\ ActiveIds(Get(last.before)) = {T(1)}
    /\ Ids(ArchiveOf(Get(last.before))) = {T(2)}
    /\ NewTask.id = T(2)

\* The largest element of a non-empty set of numbers.
SetMax(S) == CHOOSE m \in S : \A n \in S : n <= m

\* C9, as stated: the id is task-(m+1), m the highest numeric suffix among
\* the ids of the active columns (0 when there are none), archive ignored.
C9_AsStated ==
    AddedOk =>
        NewTask.id = T(SetMax({0} \cup {id.num : id \in ActiveIds(Get(last.before))}) + 1)

\* C9, amended: the id is task-(m+1), m the highest number N among the ids
\* of the form task-N in the active columns, an id with another prefix
\* counting as 0 (m = 0 when there is none); the archive is ignored, so after
\* the highest-numbered active task-N is archived the next add_task assigns
\* task-N again while the archived task-N still exists.
C9_NextId ==
    AddedOk =>
        LET b0 == Get(last.before)
            m == SetMax({0} \cup {id.num : id \in {x \in ActiveIds(b0) : x.prefix = "task"}})
        IN  /\ NewTask.id = T(m + 1)
            /\ LET r == add_task(<<[b0 EXCEPT !.archive = None]>>, 1,
                                  last.args.column_id, last.args.input_data)
                   tasks == TasksOf(r.heap[r.result.board], last.args.column_id)
               IN  tasks[Len(tasks)].id = NewTask.id
            /\ Get(last.board).archive = b0.archive

\* task-2 was archived and task-2 is assigned again, the archived one still there.
C9_Witness ==
    /\ AddedOk
    /\ NewTask.id = T(2)
    /\ T(2) \in Ids(ArchiveOf(Get(last.board)))
    /\ T(2) \notin ActiveIds(Get(last.before))

\* ------------------------------------------------------- failure conditions

\* The column ids of a board.
ColumnIds(b) == {b.columns[i].id : i \in 1..Len(b.columns)}

\* C11: move_task fails, with no board, exactly when the source column is not
\* on the board, the target column is not on the board, or the task is not in
\* the stated source column; in every other case it succeeds.
C11_MoveFailure ==
    last.op = "move_task" =>
        LET b0 == Get(last.before)
            a == last.args
            bad == \/ a.from_column_id \notin ColumnIds(b0)
                   \/ a.to_column_id \notin ColumnIds(b0)
                   \/ a.task_id \notin Ids(TasksOf(b0, a.from_column_id))
        IN  /\ ~last.success <=> bad
            /\ ~last.success => last.board = None
            /\ last.success => last.board # None

\* The task is on the board, in another column than the stated source, and
\* both columns exist: the move fails.
C11_Witness ==
    /\ last.op = "move_task" /\ ~last.success /\ last.board = None
    /\ last.args.from_column_id \in ColumnIds(Get(last.before))
    /\ last.args.to_column_id \in ColumnIds(Get(last.before))
    /\ last.args.task_id \in ActiveIds(Get(last.before))
    /\ last.args.task_id \notin Ids(TasksOf(Get(last.before), last.args.from_column_id))

\* C12: set_subtasks_completed is all-or-nothing. If a requested id is no
\* subtask of the task, the call fails with no board and no completed flag
\* changes; if the task has subtasks and every requested id is one of them,
\* the call succeeds, every listed subtask has the requested flag and every
\* other subtask is as it was.
C12_AllOrNothing ==
    (last.op = "set_subtasks_completed"
       /\ find_task_by_id(Get(last.before), last.args.task_id).column # 0) =>
        LET b0 == Get(last.before)
            a == last.args
            t0 == TaskBefore(a.task_id)
            sts0 == IF t0.subtasks = None THEN <<>> ELSE Get(t0.subtasks)
            listed == {a.subtask_ids[i] : i \in 1..Len(a.subtask_ids)}
        IN  /\ (\E id \in listed : id \notin Ids(sts0)) =>
                /\ ~last.success /\ last.board = None
                /\ board = b0
            /\ (sts0 # <<>> /\ listed \subseteq Ids(sts0)) =>
                /\ last.success /\ last.board # None
                /\ LET sts1 == Get(TaskAfter(a.task_id).subtasks)
                   IN  /\ Len(sts1) = Len(sts0)
                       /\ \A i \in 1..Len(sts0) :
                              IF sts0[i].id \in listed
                              THEN sts1[i] = [sts0[i] EXCEPT !.completed = a.completed]
                              ELSE sts1[i] = sts0[i]
                /\ [Get(last.board) EXCEPT
                       !.columns[find_task_by_id(b0, a.task_id).column]
                        .tasks[find_task_by_id(b0, a.task_id).index].subtasks = t0.subtasks]
                   = b0

\* A list of one subtask of the task, whose flag the call would change, and
\* one id that is no subtask: the call fails and returns no board.
C12_Witness ==
    /\ last.op = "set_subtasks_completed" /\ ~last.success /\ last.board = None
    /\ find_task_by_id(Get(last.before), last.args.task_id).column # 0
    /\ TaskBefore(last.args.task_id).subtasks # None
    /\ Len(last.args.subtask_ids) = 2
    /\ \E st \in {Get(TaskBefore(last.args.task_id).subtasks)[i] :
                     i \in 1..Len(Get(TaskBefore(last.args.task_id).subtasks))} :
           /\ st.id = last.args.subtask_ids[1]
           /\ st.completed # last.args.completed
    /\ last.args.subtask_ids[2] \notin Ids(Get(TaskBefore(last.args.task_id).subtasks))

\* ---------------------------------------------------------- archive / restore

\* The board a call returned.
Result(r) == r.heap[r.result.board]

\* archive_task(t from c) then restore_task(t into c) on the board b: both
\* succeed, every other column is as it was, c holds its other tasks in
\* their order and then t as it was, the archive holds the tasks it held, and
\* nothing else of the board differs.
RoundTrip(b, c, t) ==
    LET ci == find_column_by_id(b, c)
        task == TasksOf(b, c)[IndexOfId(TasksOf(b, c), t)]
        r1 == archive_task(<<b>>, 1, c, t)
        r2 == restore_task(<<Result(r1)>>, 1, t, c)
    IN  /\ r1.result.success
        /\ r2.result.success
        /\ Result(r2).columns =
               [b.columns EXCEPT ![ci].tasks = Append(WithoutId(@, t), task)]
        /\ ArchiveOf(Result(r2)) = ArchiveOf(b)
        /\ [Result(r2) EXCEPT !.columns = b.columns, !.archive = b.archive] = b

\* C13: on a board of unique task ids whose archive does not hold task t,
\* archive_task(t from column c) followed by restore_task(t into c) gives a
\* board where every column holds the same tasks as before (t unchanged and
\* last in c) and the archive holds the same tasks as before.
C13_RestoreReversesArchive ==
    UniqueActiveIds(board) =>
        \A c \in ColumnIds(board) :
            \A t \in Ids(TasksOf(board, c)) \ Ids(ArchiveOf(board)) :
                RoundTrip(board, c, t)

\* The first of two tasks was archived and is restored into its column: it
\* is back, now last, and the archive is empty again.
C13_Witness ==
    /\ last.op = "restore_task" /\ last.success
    /\ last.args = [task_id |-> T(1), to_column_id |-> "todo"]
    /\ TasksOf(Get(last.before), "todo") = <<SeqTask(T(2))>>
    /\ ArchiveOf(Get(last.before)) = <<SeqTask(T(1))>>
    /\ TasksOf(Get(last.board), "todo") = <<SeqTask(T(2)), SeqTask(T(1))>>
    /\ ArchiveOf(Get(last.board)) = <<>>

\* C14: restore_task fails with no board when the archive is absent or
\* empty, when no archived task has the id, or when the target column does
\* not exist; otherwise it succeeds, the archived task is appended to the
\* target column and no task with that id is left in the archive.
C14_RestoreFailure ==
    last.op = "restore_task" =>
        LET b0 == Get(last.before)
            a == last.args
            bad == \/ ArchiveOf(b0) = <<>>
                   \/ a.task_id \notin Ids(ArchiveOf(b0))
                   \/ a.to_column_id \notin ColumnIds(b0)
        IN  /\ ~last.success <=> bad
            /\ ~last.success => last.board = None
            /\ last.success =>
                   /\ last.board # None
                   /\ TasksOf(Get(last.board), a.to_column_id) =
                          Append(TasksOf(b0, a.to_column_id),
                                 ArchiveOf(b0)[IndexOfId(ArchiveOf(b0), a.task_id)])
                   /\ a.task_id \notin Ids(ArchiveOf(Get(last.board)))
                   /\ ArchiveOf(Get(last.board)) = WithoutId(ArchiveOf(b0), a.task_id)

\* The archive holds tasks, none with the requested id, and the target
\* column exists: the call fails.
C14_Witness ==
    /\ last.op = "restore_task" /\ ~last.success /\ last.board = None
    /\ ArchiveOf(Get(last.before)) # <<>>
    /\ last.args.task_id \notin Ids(ArchiveOf(Get(last.before)))
    /\ last.args.to_column_id \in ColumnIds(Get(last.before))

\* ------------------------------------------------------------------ titles

\* Every task of the board, archived ones included, has a title that is not
\* empty after trimming.
TitlesNonEmpty(b) ==
    LET tasks == ActiveTasks(b.columns) \o ArchiveOf(b)
    IN  \A i \in 1..Len(tasks) : strip(tasks[i].title) # <<>>

\* C15, as stated: from a board of non-empty titles, every board a
\* successful mutation operation returns has only titles that are non-empty
\* after trimming; an operation given an empty or blank title fails.
C15_TitlesNonEmpty ==
    (Called /\ last.success /\ last.board # None /\ TitlesNonEmpty(Get(last.before))) =>
        TitlesNonEmpty(Get(last.board))

\* ------------------------------------------------------ concurrent callers

\* The result of the call when it runs alone on the input board.
RunAlone(call) ==
    CASE call.op = "patch_task" -> patch_task(<<board>>, 1, call.task_id, call.patch)
      [] call.op = "move_task" ->
            move_task(<<board>>, 1, call.task_id, call.column_id, call.to_column_id,
                      call.to_index)

\* C16: when callers run operations concurrently on one input board, then in
\* every interleaving of their steps (checks, copy, changes to the copy) the
\* input board is never modified and every call that has returned returned
\* what it returns when run alone: the same success flag, the same error, no
\* board on failure and on success a board of its own with the same contents.
C16_ConcurrentCallsIndependent ==
    threads # <<>> =>
        /\ mem[1] = board
        /\ \A k \in 1..NumCallers :
               threads[k].pc = "done" =>
                   LET res == threads[k].result
                       r == RunAlone(threads[k].call)
                   IN  /\ res.success = r.result.success
                       /\ res.error = r.result.error
                       /\ (res.board = NoBoard) <=> (r.result.board = NoBoard)
                       /\ res.board # NoBoard =>
                              /\ res.board # 1
                              /\ mem[res.board] = Result(r)
                              /\ \A j \in (1..NumCallers) \ {k} :
                                     threads[j].new_board # res.board

\* Two callers have returned boards that differ from each other and from the
\* input, the second caller having taken its copy first.
C16_Witness ==
    /\ threads # <<>>
    /\ \A k \in 1..NumCallers : threads[k].pc = "done"
    /\ threads[1].call.op = "patch_task"
    /\ threads[2].call.op = "move_task"
    /\ threads[1].result.success
    /\ threads[2].result.success
    /\ threads[2].result.board < threads[1].result.board
    /\ mem[threads[1].result.board] # mem[threads[2].result.board]
    /\ mem[threads[1].result.board] # board
    /\ mem[threads[2].result.board] # board

\* ------------------------------------------------------------------- order

\* Two elements that both lists hold come in the same order in both.
KeepsOrder(s0, s1) ==
    \A x, y \in Ids(s0) \cap Ids(s1) :
        (IndexOfId(s0, x) < IndexOfId(s0, y)) <=> (IndexOfId(s1, x) < IndexOfId(s1, y))

AllTasks(b) == ActiveTasks(b.columns) \o ArchiveOf(b)

SubtasksOf(task) == IF task.subtasks = None THEN <<>> ELSE Get(task.subtasks)

\* The list s1 is the list s0 with one more element at its end.
OneMoreAtEnd(s0, s1) == Len(s1) = Len(s0) + 1 /\ SubSeq(s1, 1, Len(s0)) = s0

\* C17: a call of an operation other than move_task and move_tasks that
\* returns a board leaves the relative order of the columns, of the tasks that
\* stay in a column and of the subtasks that stay in a task as it was;
\* add_task and restore_task put the task at the end of the column,
\* add_subtask puts the subtask at the end of the task's subtasks, and
\* archive_task puts the task at the end of the archive.
C17_OrderPreserved ==
    (Called /\ last.board # None) =>
        LET b0 == Get(last.before)
            b1 == Get(last.board)
            a == last.args
        IN  /\ last.op \notin {"move_task", "move_tasks"} =>
                   /\ KeepsOrder(b0.columns, b1.columns)
                   /\ \A c \in ColumnIds(b0) \cap ColumnIds(b1) :
                          KeepsOrder(TasksOf(b0, c), TasksOf(b1, c))
                   /\ \A t \in Ids(AllTasks(b0)) \cap Ids(AllTasks(b1)) :
                          KeepsOrder(
                              SubtasksOf(AllTasks(b0)[IndexOfId(AllTasks(b0), t)]),
                              SubtasksOf(AllTasks(b1)[IndexOfId(AllTasks(b1), t)]))
            /\ last.op = "add_task" =>
                   OneMoreAtEnd(TasksOf(b0, a.column_id), TasksOf(b1, a.column_id))
            /\ last.op = "restore_task" =>
                   /\ OneMoreAtEnd(TasksOf(b0, a.to_column_id), TasksOf(b1, a.to_column_id))
                   /\ TasksOf(b1, a.to_column_id)[Len(TasksOf(b1, a.to_column_id))].id
                          = a.task_id
            /\ last.op = "add_subtask" =>
                   OneMoreAtEnd(SubtasksOf(TaskBefore(a.task_id)),
                                SubtasksOf(TaskAfter(a.task_id)))
            /\ last.op = "archive_task" =>
                   /\ OneMoreAtEnd(ArchiveOf(b0), ArchiveOf(b1))
                   /\ ArchiveOf(b1)[Len(ArchiveOf(b1))].id = a.task_id

\* delete_task has taken the first of three tasks out of a column: the two
\* that stay are in the order they were in.
C17_Witness ==
    /\ last.op = "delete_task" /\ last.success /\ last.board # None
    /\ Len(TasksOf(Get(last.before), last.args.column_id)) = 3
    /\ TasksOf(Get(last.before), last.args.column_id)[1].id = last.args.task_id
    /\ TasksOf(Get(last.board), last.args.column_id)
           = Tail(TasksOf(Get(last.before), last.args.column_id))

\* ------------------------------------------------------------------- diffs

Diffed(via) == last.op = "diff_boards" /\ last.args.via = via

\* The task ids of the entries of a bucket.
TaskIdsIn(bucket) == {bucket[i].task_id : i \in 1..Len(bucket)}

\* C18: diff_boards(b, b) has empty columns_added, columns_removed,
\* columns_updated, columns_moved, tasks_added, tasks_removed, tasks_updated
\* and tasks_moved, and metadata_changed is false.
C18_SelfDiffEmpty ==
    (last.op = "diff_boards" /\ last.args.next_board = board) =>
        /\ ~last.diff.metadata_changed
        /\ last.diff.columns_added = <<>>
        /\ last.diff.columns_removed = <<>>
        /\ last.diff.columns_updated = <<>>
        /\ last.diff.columns_moved = <<>>
        /\ last.diff.tasks_added = <<>>
        /\ last.diff.tasks_removed = <<>>
        /\ last.diff.tasks_updated = <<>>
        /\ last.diff.tasks_moved = <<>>

\* A board of three columns, tasks with every field set, and an archive has
\* been diffed against itself.
C18_Witness ==
    /\ Diffed("same")
    /\ Len(board.columns) = 3
    /\ Len(ActiveTasks(board.columns)) = 4
    /\ ArchiveOf(board) # <<>>

\* C19: when the next board is the previous one without a column that owns k
\* tasks, diff_boards reports one removed column, that one, and k removed
\* tasks, the tasks of that column, and none of them as updated, moved or
\* added.
C19_ColumnRemoved ==
    Diffed("remove_column") =>
        LET owned == TasksOf(board, last.args.column_id)
            diff == last.diff
        IN  /\ Len(diff.columns_removed) = 1
            /\ diff.columns_removed[1].column_id = last.args.column_id
            /\ Len(diff.tasks_removed) = Len(owned)
            /\ TaskIdsIn(diff.tasks_removed) = Ids(owned)
            /\ TaskIdsIn(diff.tasks_updated) \cap Ids(owned) = {}
            /\ TaskIdsIn(diff.tasks_moved) \cap Ids(owned) = {}
            /\ TaskIdsIn(diff.tasks_added) \cap Ids(owned) = {}

\* The second of three columns, which owns two tasks, has been removed: the
\* third column has moved up.
C19_Witness ==
    /\ Diffed("remove_column")
    /\ Len(board.columns) = 3
    /\ board.columns[2].id = last.args.column_id
    /\ Len(board.columns[2].tasks) = 2
    /\ Len(last.diff.tasks_removed) = 2
    /\ Len(last.diff.columns_moved) = 1

\* C20: when the next board is what a successful move_task of task t from
\* column A to another column B returns, diff_boards reports one moved entry
\* for t, from A at t's old index to B at t's new index, and t is not among
\* the tasks added, removed or updated.
C20_MoveDiff ==
    (Diffed("move_task") /\ last.args.column_id # last.args.to_column_id) =>
        LET t == last.args.task_id
            diff == last.diff
            moved == SelectSeq(diff.tasks_moved, LAMBDA e : e.task_id = t)
        IN  /\ Len(moved) = 1
            /\ moved[1].from_column_id = Some(last.args.column_id)
            /\ moved[1].to_column_id = Some(last.args.to_column_id)
            /\ moved[1].from_index =
                   Some(IndexOfId(TasksOf(board, last.args.column_id), t) - 1)
            /\ moved[1].to_index =
                   Some(IndexOfId(TasksOf(last.args.next_board,
                                          last.args.to_column_id), t) - 1)
            /\ t \notin TaskIdsIn(diff.tasks_added)
            /\ t \notin TaskIdsIn(diff.tasks_removed)
            /\ t \notin TaskIdsIn(diff.tasks_updated)

\* The second task of a column has been moved to the front of another column
\* that holds a task: the task it lands before is reported as moved too.
C20_Witness ==
    /\ Diffed("move_task")
    /\ last.args.column_id # last.args.to_column_id
    /\ IndexOfId(TasksOf(board, last.args.column_id), last.args.task_id) = 2
    /\ TasksOf(board, last.args.to_column_id) # <<>>
    /\ TasksOf(last.args.next_board, last.args.to_column_id)[1].id = last.args.task_id
    /\ Len(last.diff.tasks_moved) = 2

\* ------------------------------------------------------------ conservation

\* The number of tasks in the active columns and the number in the archive.
Counts(b) == [active |-> Len(ActiveTasks(b.columns)), archive |-> Len(ArchiveOf(b))]

\* C25: in a session of add_task, archive_task and restore_task calls (and
\* the other operations), a successful archive_task takes exactly one task
\* out of the columns and puts one into the archive, and a successful
\* restore_task does the reverse, so the total number of tasks is unchanged.
C25_TasksConserved ==
    (Called /\ last.success /\ last.board # None) =>
        LET n0 == Counts(Get(last.before))
            n1 == Counts(Get(last.board))
        IN  /\ last.op = "archive_task" =>
                   n1.active = n0.active - 1 /\ n1.archive = n0.archive + 1
            /\ last.op = "restore_task" =>
                   n1.active = n0.active + 1 /\ n1.archive = n0.archive - 1

\* ------------------------------------------------------------------- frame

TaskScoped ==
    {"update_task", "patch_task", "toggle_subtask", "add_subtask", "update_subtask",
     "delete_subtask", "set_subtasks_completed", "set_all_subtasks_completed"}

\* Where the last call's task is in the board before the call: update_task
\* names its column, the others search every column.
Addressed ==
    LET b0 == Get(last.before)
    IN  IF last.op = "update_task"
        THEN [column |-> find_column_by_id(b0, last.args.column_id),
              index |-> IndexOfId(TasksOf(b0, last.args.column_id), last.args.task_id)]
        ELSE find_task_by_id(b0, last.args.task_id)

\* C28: a successful update_task, patch_task, toggle_subtask, add_subtask,
\* update_subtask, delete_subtask, set_subtasks_completed or
\* set_all_subtasks_completed returns the input board with nothing but the
\* addressed task changed (every other task, every column's tasks and their
\* order, the archive, the title and the stats configuration are the
\* input's), and the addressed task has its id and is where it was.
C28_OnlyAddressedTask ==
    (Called /\ last.op \in TaskScoped /\ last.success /\ last.board # None) =>
        LET b0 == Get(last.before)
            b1 == Get(last.board)
            at == Addressed
        IN  /\ Len(b1.columns) = Len(b0.columns)
            /\ Len(b1.columns[at.column].tasks) = Len(b0.columns[at.column].tasks)
            /\ b1.columns[at.column].tasks[at.index].id = last.args.task_id
            /\ [b1 EXCEPT !.columns[at.column].tasks[at.index] =
                              b0.columns[at.column].tasks[at.index]] = b0

\* patch_task has changed the first of two tasks of a column on a board with
\* tasks in the other column and in the archive.
C28_Witness ==
    /\ last.op = "patch_task" /\ last.success /\ last.board # None
    /\ Addressed.column = 1 /\ Addressed.index = 1
    /\ Len(Get(last.before).columns[1].tasks) >= 2
    /\ Get(last.board).columns[1].tasks[1] # Get(last.before).columns[1].tasks[1]
    /\ Get(last.board).columns[1].tasks[2] = Get(last.before).columns[1].tasks[2]

\* ---------------------------------------------------------- updated entries

ColumnAllowList == {"title", "order"}

TaskAllowList ==
    {"title", "description", "related_files", "assignee", "tags", "priority",
     "due_date", "subtasks", "template"}

\* The elements of a list.
Elems(s) == {s[i] : i \in 1..Len(s)}

\* The updated entries for one id are right: there is one exactly when a
\* field of the allow-list differs between the two values, and its
\* changed_fields are the fields that differ, each named once.
UpdatedRight(entries, before, after, allow) ==
    LET differ == {f \in allow : before[f] # after[f]}
    IN  /\ Len(entries) = (IF differ = {} THEN 0 ELSE 1)
        /\ \A i \in 1..Len(entries) :
               /\ Elems(Get(entries[i].changed_fields)) = differ
               /\ Len(Get(entries[i].changed_fields)) = Cardinality(differ)

\* C21: for a column id and for a task id that both snapshots have,
\* diff_boards records an updated entry exactly when a field of the allow-list
\* differs (columns: title, order; tasks: title, description, related_files,
\* assignee, tags, priority, due_date, subtasks, template), its changed_fields
\* are exactly the fields that differ, and fields are compared by deep,
\* order-sensitive equality.
C21_UpdatedExactly ==
    last.op = "diff_boards" =>
        LET next_board == last.args.next_board
            diff == last.diff
        IN  /\ \A c \in ColumnIds(board) \cap ColumnIds(next_board) :
                   UpdatedRight(
                       SelectSeq(diff.columns_updated, LAMBDA e : e.column_id = c),
                       board.columns[find_column_by_id(board, c)],
                       next_board.columns[find_column_by_id(next_board, c)],
                       ColumnAllowList)
            /\ \A t \in Ids(ActiveTasks(board.columns))
                        \cap Ids(ActiveTasks(next_board.columns)) :
                   UpdatedRight(
                       SelectSeq(diff.tasks_updated, LAMBDA e : e.task_id = t),
                       TaskById(board, t), TaskById(next_board, t), TaskAllowList)

\* A task's tags x, y have become y, x and nothing else has changed: the task
\* is reported as updated, in its tags.
C21_Witness ==
    /\ Diffed("patch_task")
    /\ TaskById(board, last.args.task_id).tags = Some(<<"x", "y">>)
    /\ TaskById(last.args.next_board, last.args.task_id)
           = [TaskById(board, last.args.task_id) EXCEPT !.tags = Some(<<"y", "x">>)]
    /\ Len(last.diff.tasks_updated) = 1
    /\ last.diff.tasks_updated[1].task_id = last.args.task_id
    /\ last.diff.tasks_updated[1].changed_fields = Some(<<"tags">>)

\* ------------------------------------------------------- hashes and diffs

\* The diff reports something: a bucket has an entry or the metadata changed.
Reports(diff) ==
    \/ diff.metadata_changed
    \/ diff.columns_added # <<>>
    \/ diff.columns_removed # <<>>
    \/ diff.columns_updated # <<>>
    \/ diff.columns_moved # <<>>
    \/ diff.tasks_added # <<>>
    \/ diff.tasks_removed # <<>>
    \/ diff.tasks_updated # <<>>
    \/ diff.tasks_moved # <<>>

\* C22: whenever the hash_board digests of two boards differ, diff_boards of
\* the two reports something: a bucket is not empty or metadata_changed is
\* true.  The boards include those a successful mutation returns for the
\* other, such as setting a task's contract.
C22_DivergenceExplained ==
    (last.op = "diff_boards" /\ last.hashes.previous # last.hashes.next_board) =>
        Reports(last.diff)

\* C23: when hash_board(a) = hash_board(b), diff_boards(a, b) has every
\* bucket empty and metadata_changed false.
C23_EqualHashEmptyDiff ==
    (last.op = "diff_boards" /\ last.hashes.previous = last.hashes.next_board) =>
        ~Reports(last.diff)

\* patch_task with a patch that sets nothing has returned a new board for a
\* board of four tasks: the two digests are equal and the diff is empty.
C23_Witness ==
    /\ Diffed("patch_task")
    /\ Len(ActiveTasks(board.columns)) = 4
    /\ last.hashes.previous = last.hashes.next_board
    /\ ~Reports(last.diff)
    /\ ~Reports(last.reverse)

UniqueIdsOn(b) ==
    /\ UniqueActiveIds(b)
    /\ \A i, j \in 1..Len(b.columns) : b.columns[i].id = b.columns[j].id => i = j

\* How many entries a bucket has for a task id, for a column id.
TaskEntries(bucket, t) == Cardinality({i \in 1..Len(bucket) : bucket[i].task_id = t})

ColumnEntries(bucket, c) == Cardinality({i \in 1..Len(bucket) : bucket[i].column_id = c})

\* Where a task is on a board of unique ids: its column and its 0-based index.
PlaceOf(b, t) ==
    LET ci == CHOOSE i \in 1..Len(b.columns) : IndexOfId(b.columns[i].tasks, t) # 0
    IN  [column_id |-> b.columns[ci].id, index |-> IndexOfId(b.columns[ci].tasks, t) - 1]

\* 1 for true, 0 for false.
Once(p) == IF p THEN 1 ELSE 0

TasksMirrored(bucket, reverse) ==
    /\ TaskIdsIn(bucket) = TaskIdsIn(reverse)
    /\ Len(bucket) = Len(reverse)
    /\ \A i \in 1..Len(bucket) : \A j \in 1..Len(reverse) :
           bucket[i].task_id = reverse[j].task_id =>
               /\ bucket[i].from_column_id = reverse[j].to_column_id
               /\ bucket[i].to_column_id = reverse[j].from_column_id
               /\ bucket[i].from_index = reverse[j].to_index
               /\ bucket[i].to_index = reverse[j].from_index
               /\ bucket[i].changed_fields = reverse[j].changed_fields

ColumnsMirrored(bucket, reverse) ==
    /\ {bucket[i].column_id : i \in 1..Len(bucket)}
           = {reverse[j].column_id : j \in 1..Len(reverse)}
    /\ Len(bucket) = Len(reverse)
    /\ \A i \in 1..Len(bucket) : \A j \in 1..Len(reverse) :
           bucket[i].column_id = reverse[j].column_id =>
               /\ bucket[i].from_index = reverse[j].to_index
               /\ bucket[i].to_index = reverse[j].from_index
               /\ bucket[i].changed_fields = reverse[j].changed_fields

\* C30: for boards a and b of unique column and task ids, diff_boards(b, a)
\* mirrors diff_boards(a, b): the ids added in one are the ids removed in the
\* other, the moved entries cover the same ids with from and to column ids and
\* indexes swapped, the updated entries cover the same ids with the same
\* changed_fields, and metadata_changed is the same.
C30_Mirror ==
    (last.op = "diff_boards" /\ UniqueIdsOn(board) /\ UniqueIdsOn(last.args.next_board)) =>
        LET diff == last.diff
            reverse == last.reverse
        IN  /\ diff.metadata_changed = reverse.metadata_changed
            /\ TasksMirrored(diff.tasks_added, reverse.tasks_removed)
            /\ TasksMirrored(diff.tasks_removed, reverse.tasks_added)
            /\ TasksMirrored(diff.tasks_moved, reverse.tasks_moved)
            /\ TasksMirrored(diff.tasks_updated, reverse.tasks_updated)
            /\ ColumnsMirrored(diff.columns_added, reverse.columns_removed)
            /\ ColumnsMirrored(diff.columns_removed, reverse.columns_added)
            /\ ColumnsMirrored(diff.columns_moved, reverse.columns_moved)
            /\ ColumnsMirrored(diff.columns_updated, reverse.columns_updated)

\* The diff of a board and the board after a task with no tags was moved to
\* another column, retitled and tagged, and the diff the other way round: both
\* report the task as moved and as updated in its title and its tags.
C30_Witness ==
    /\ Diffed("move_and_patch")
    /\ UniqueIdsOn(board) /\ UniqueIdsOn(last.args.next_board)
    /\ last.args.column_id # last.args.to_column_id
    /\ TaskById(board, last.args.task_id).tags = None
    /\ \E i \in 1..Len(last.diff.tasks_updated) :
           /\ last.diff.tasks_updated[i].task_id = last.args.task_id
           /\ last.diff.tasks_updated[i].changed_fields = Some(<<"title", "tags">>)
    /\ \E j \in 1..Len(last.reverse.tasks_moved) :
           /\ last.reverse.tasks_moved[j].task_id = last.args.task_id
           /\ last.reverse.tasks_moved[j].from_column_id = Some(last.args.to_column_id)
           /\ last.reverse.tasks_moved[j].to_column_id = Some(last.args.column_id)


\* ---------------------------------------------------------------- subtask ids

\* No two subtasks of a task of the board have the same id.
UniqueSubtaskIds(b) ==
    \A i \in 1..Len(AllTasks(b)) :
        LET sts == SubtasksOf(AllTasks(b)[i])
        IN  \A j, k \in 1..Len(sts) : sts[j].id = sts[k].id => j = k

\* The highest of a set of numbers, 0 for the empty set.
Highest(S) == IF S = {} THEN 0 ELSE CHOOSE m \in S : \A n \in S : n <= m

\* The positive numbers of the ids that start with the task id and a number,
\* whatever follows the number.
NumbersAtStart(task_id, sts) ==
    {sts[i].id.idx : i \in {j \in 1..Len(sts) : sts[j].id.task = task_id /\ sts[j].id.idx > 0}}

\* The numbers of the ids that are the task id and a number and nothing more.
NumericSuffixes(task_id, sts) ==
    {sts[i].id.idx : i \in {j \in 1..Len(sts) : sts[j].id.task = task_id /\ sts[j].id.tail = ""}}

\* The ids stay unique over a successful add_subtask and a successful
\* delete_subtask, and the id add_subtask assigned is the task id with number
\* m + 1 and is the id of no subtask the task had, m the highest of numbers.
IdsUniqueAndNext(numbers) ==
    /\ UniqueSubtaskIds(board)
    /\ (last.op \in {"add_subtask", "delete_subtask"} /\ last.success) =>
           UniqueSubtaskIds(Get(last.board))
    /\ (last.op = "add_subtask" /\ last.success) =>
           LET sts0 == SubtasksOf(TaskBefore(last.args.task_id))
               sts1 == SubtasksOf(TaskById(Get(last.board), last.args.task_id))
           IN  /\ OneMoreAtEnd(sts0, sts1)
               /\ sts1[Len(sts1)].id = SubtaskId(last.args.task_id, Highest(numbers) + 1)
               /\ sts1[Len(sts1)].id \notin Ids(sts0)

\* The subtasks left by a successful delete_subtask.
Remaining == SubtasksOf(TaskById(Get(last.board), last.args.task_id))

\* delete_subtask has taken out a subtask with a generated id.
GeneratedDeleted ==
    /\ last.op = "delete_subtask" /\ last.success
    /\ last.args.subtask_id = SubtaskId(last.args.task_id, last.args.subtask_id.idx)

\* The id the next add_subtask on the task assigns, after a delete_subtask.
NextAssigned ==
    LET again == add_subtask(<<Get(last.board)>>, 1, last.args.task_id, Txt("n"))
        sts2 == SubtasksOf(TaskById(again.heap[again.result.board], last.args.task_id))
    IN  sts2[Len(sts2)].id

\* C27, as stated: m is the highest numeric suffix among the task's subtask
\* ids of the form '{task_id}-{n}', 0 if there is none, and the id of a deleted
\* highest-numbered subtask is assigned again by the next add_subtask.
C27_AsStated ==
    /\ IdsUniqueAndNext(IF last.op = "add_subtask" /\ last.success
                        THEN NumericSuffixes(last.args.task_id,
                                             SubtasksOf(TaskBefore(last.args.task_id)))
                        ELSE {})
    /\ (/\ GeneratedDeleted
        /\ last.args.subtask_id.idx
               > Highest(NumericSuffixes(last.args.task_id, Remaining))) =>
           NextAssigned = last.args.subtask_id

\* C27: after any sequence of add_subtask and delete_subtask calls on a task
\* whose subtask ids are unique the ids stay unique; add_subtask assigns
\* '{task_id}-{m+1}', m the highest positive number that follows '{task_id}-'
\* at the start of a subtask id of the task, whatever follows the number (0 if
\* there is none), which is the id of no subtask of the task; the id
\* '{task_id}-{N}' of a deleted subtask is assigned again by the next
\* add_subtask exactly when the highest number left is N - 1.
C27_SubtaskIdsUnique ==
    /\ IdsUniqueAndNext(IF last.op = "add_subtask" /\ last.success
                        THEN NumbersAtStart(last.args.task_id,
                                            SubtasksOf(TaskBefore(last.args.task_id)))
                        ELSE {})
    /\ GeneratedDeleted =>
           (NextAssigned = last.args.subtask_id
                <=> last.args.subtask_id.idx
                        = Highest(NumbersAtStart(last.args.task_id, Remaining)) + 1)

\* add_subtask on a task whose only id with a number is one written by hand,
\* the number followed by text: the new subtask is numbered after it.
C27_Witness ==
    /\ last.op = "add_subtask" /\ last.success
    /\ \E i \in 1..Len(SubtasksOf(TaskBefore(last.args.task_id))) :
           LET id == SubtasksOf(TaskBefore(last.args.task_id))[i].id
           IN  id.task = last.args.task_id /\ id.tail = "x" /\ id.idx = 2
    /\ NumericSuffixes(last.args.task_id, SubtasksOf(TaskBefore(last.args.task_id))) = {}
    /\ LET sts1 == SubtasksOf(TaskById(Get(last.board), last.args.task_id))
       IN  sts1[Len(sts1)].id = SubtaskId(last.args.task_id, 3)

\* -------------------------------------------------------- the last subtask

SubtaskScoped ==
    {"toggle_subtask", "update_subtask", "delete_subtask", "set_subtasks_completed",
     "set_all_subtasks_completed"}

\* delete_subtask has taken out the only subtask the task had left.
LastSubtaskDeleted ==
    /\ last.op = "delete_subtask" /\ last.success
    /\ Len(SubtasksOf(TaskBefore(last.args.task_id))) = 1

\* A subtask-scoped operation was called on a task of the board that has no
\* subtasks, with a title where it takes one if titled is true.
CalledWithoutSubtasks(titled) ==
    /\ last.op \in SubtaskScoped
    /\ find_task_by_id(Get(last.before), last.args.task_id).column # 0
    /\ TaskBefore(last.args.task_id).subtasks = None
    /\ (titled /\ last.op = "update_subtask") => strip(last.args.title) # <<>>

\* After add_subtask on a task without subtasks the task has one subtask, and
\* no subtask-scoped operation on a task with subtasks fails for their lack.
SubtasksBack ==
    /\ (last.op = "add_subtask" /\ last.success
          /\ TaskBefore(last.args.task_id).subtasks = None) =>
           /\ TaskById(Get(last.board), last.args.task_id).subtasks # None
           /\ Len(SubtasksOf(TaskById(Get(last.board), last.args.task_id))) = 1
    /\ (/\ last.op \in SubtaskScoped
        /\ find_task_by_id(Get(last.before), last.args.task_id).column # 0
        /\ SubtasksOf(TaskBefore(last.args.task_id)) # <<>>) =>
           last.error # Some("Task has no subtasks")

\* C29, as stated: every such call fails with the 'has no subtasks' error.
C29_AsStated ==
    /\ LastSubtaskDeleted => TaskById(Get(last.board), last.args.task_id).subtasks = None
    /\ CalledWithoutSubtasks(FALSE) =>
           ~last.success /\ last.board = None /\ last.error = Some("Task has no subtasks")
    /\ SubtasksBack

\* C29: a delete_subtask that removes the only subtask a task has left leaves
\* the task's subtasks None, not an empty list; from then on toggle_subtask,
\* update_subtask, delete_subtask, set_subtasks_completed and
\* set_all_subtasks_completed on the task fail and return no board, with the
\* 'has no subtasks' error, except that update_subtask with a blank title
\* fails with 'Subtask title is required'; after a successful add_subtask the
\* task has subtasks again.
C29_NoSubtasksLeft ==
    /\ LastSubtaskDeleted => TaskById(Get(last.board), last.args.task_id).subtasks = None
    /\ CalledWithoutSubtasks(TRUE) =>
           ~last.success /\ last.board = None /\ last.error = Some("Task has no subtasks")
    /\ (CalledWithoutSubtasks(FALSE) /\ ~CalledWithoutSubtasks(TRUE)) =>
           ~last.success /\ last.board = None
               /\ last.error = Some("Subtask title is required")
    /\ SubtasksBack

\* In a session that started with subtasks the task has none left, and
\* set_all_subtasks_completed on it has failed for that.
C29_Witness ==
    /\ last.op = "set_all_subtasks_completed"
    /\ CalledWithoutSubtasks(TRUE)
    /\ ~last.success /\ last.board = None
    /\ last.error = Some("Task has no subtasks")

====
